---------------------------- MODULE Spec2Model ----------------------------
(***************************************************************************)
(* A model of gctree's inference core (gctree/branching_processes.py):     *)
(*                                                                         *)
(*  - the memoized likelihood kernel CollapsedTree._ll_genotype, a         *)
(*    functools.lru_cache around a body that keeps the class dictionary    *)
(*    _max_ll_cache and fills three rectangles of cells (SpecKernel);      *)
(*  - the per-tree likelihood _lltree that drives the kernel (SpecKernel); *)
(*  - CollapsedTree.__init__, which collapses an ete3 tree, its CM summary *)
(*    _build_cm_counts, ll and compare (SpecTree).                         *)
(*                                                                         *)
(* Numbers.  The kernel works on logarithms of probabilities in floating   *)
(* point.  Here a parameter is a number of tenths (4 stands for 0.4) and a *)
(* log-probability x is represented by the probability exp(x) itself,      *)
(* evaluated exactly in the prime field of integers modulo Prime: a sum of *)
(* logarithms is a product (LAdd), n * log x is a power (LScale),          *)
(* logsumexp is a sum, softmax weight i is term i divided by the sum.  A   *)
(* gradient entry (a derivative of the logarithm) is the field element     *)
(* itself, 1 / x being the field inverse.  Every formula of the source is  *)
(* evaluated term by term under this representation.                       *)
(***************************************************************************)
EXTENDS Integers, Sequences, FiniteSets, TLC

\* ------------------------------------------------------------------ bounds
\* Largest abundance c and largest number of mutant clades m a caller asks for.
MaxC == 2
MaxM == 2

\* ------------------------------------------------------- field arithmetic
\* The modulus of the field (a prime below 2^15, so that a product of two
\* residues stays a machine integer) and the denominator of a parameter.
Prime == 10^4 + 7
Tenths == 5 + 5

Mod(x) == x % Prime
Add(a, b) == (a + b) % Prime
Sub(a, b) == (a - b) % Prime
Mul(a, b) == (a * b) % Prime

RECURSIVE Pow(_, _)
Pow(x, n) ==
    IF n = 0 THEN 1
    ELSE IF n % 2 = 0 THEN LET h == Pow(x, n \div 2) IN Mul(h, h)
    ELSE Mul(x, Pow(x, n - 1))

\* 1 / x in the field
Inv(x) == Pow(Mod(x), Prime - 2)

InvTenths == Inv(Tenths)
\* the field element of a parameter given in tenths
Real(t) == Mul(Mod(t), InvTenths)

\* np.log(x) + np.log(y): the logarithm of a product
LAdd(a, b) == Mul(a, b)
\* n * np.log(x)
LScale(a, n) == Pow(a, n)

RECURSIVE SumSeq(_)
SumSeq(s) == IF s = <<>> THEN 0 ELSE Add(Head(s), SumSeq(Tail(s)))

RECURSIVE ProdSeq(_)
ProdSeq(s) == IF s = <<>> THEN 1 ELSE Mul(Head(s), ProdSeq(Tail(s)))

\* ------------------------------------------------------------ parameters
\* (p, q) pairs in tenths: (0.4, 0.6) is the pair of tests/test_ll.py.
Params == {<<4, 6>>, <<4, 3>>, <<3, 6>>}

Cells == (0..MaxC) \X (0..MaxM)

\* Variant: a single clonal leaf is no legal cell.
Legal_NoLoneLeaf(c, m) == c > 1 \/ m > 1

\* The guard of the fill loops and of the split loop: cx > 0 or mx > 1.
Legal(c, m) == c > 0 \/ m > 1

\* ------------------------------------------------------- Python's range()
\* range(a, b) as a sequence
Range(a, b) == [i \in 1..(IF b > a THEN b - a ELSE 0) |-> a + i - 1]

\* for x in outer: for y in inner: yield <<x, y>>
Nested(outer, inner) ==
    [k \in 1..(Len(outer) * Len(inner)) |->
        <<outer[((k - 1) \div Len(inner)) + 1], inner[((k - 1) % Len(inner)) + 1]>>]

Swap(s) == [k \in 1..Len(s) |-> <<s[k][2], s[k][1]>>]

RECURSIVE Flatten(_)
Flatten(ss) == IF ss = <<>> THEN <<>> ELSE Head(ss) \o Flatten(Tail(ss))

IsLegalCell(cell) == Legal(cell[1], cell[2])

\* ------------------------------------------------------------- the kernel
\* Mutant: the fill without its second part.
FillOrder_NoPart2(cached_c, cached_m, c, m) ==
    SelectSeq(
        Nested(Range(0, cached_c + 1), Range(cached_m, m + 1))
        \o Swap(Nested(Range(cached_m + 1, m + 1), Range(cached_c + 1, c + 1))),
        IsLegalCell)

\* The cells the three fill loops call, in order (the calls of lines 292-303).
\* Part 1: cx over range(cached_c + 1), mx over range(cached_m, m + 1);
\* part 2: mx over range(cached_m + 1), cx over range(cached_c, c + 1);
\* part 3: mx over range(cached_m + 1, m + 1), cx over range(cached_c + 1, c + 1).
FillOrder(cached_c, cached_m, c, m) ==
    SelectSeq(
        Nested(Range(0, cached_c + 1), Range(cached_m, m + 1))
        \o Swap(Nested(Range(0, cached_m + 1), Range(cached_c, c + 1)))
        \o Swap(Nested(Range(cached_m + 1, m + 1), Range(cached_c + 1, c + 1))),
        IsLegalCell)

\* The (cx, mx) of the symmetric-split loop whose two halves are legal.
SplitPairs(c, m) ==
    LET all == Nested(Range(0, c + 1), Range(0, m + 1))
        Ok(x) == Legal(x[1], x[2]) /\ Legal(c - x[1], m - x[2])
    IN SelectSeq(all, Ok)

\* The cells the recurrence reads, in the order it calls them: (c, m - 1) when
\* m >= 1, then (cx, mx) and (c - cx, m - mx) for every legal split.  The two
\* base cases read nothing.
Deps(c, m) ==
    IF (c = 1 /\ m = 0) \/ (c = 0 /\ m = 2) THEN <<>>
    ELSE (IF m >= 1 THEN << <<c, m - 1>> >> ELSE <<>>)
         \o Flatten([k \in 1..Len(SplitPairs(c, m)) |->
                        LET x == SplitPairs(c, m)[k]
                        IN << x, <<c - x[1], m - x[2]>> >>])

\* A kernel result: the log-likelihood and its gradient wrt (p, q).
Result(logf, dp, dq) == [logf |-> logf, dlogfdp |-> dp, dlogfdq |-> dq]

\* The terms of the logsumexp, from the values read (in the order of Deps).
Terms(c, m, p, q, reads) ==
    LET P == Real(p)
        Q == Real(q)
        asym == IF m >= 1
                THEN << Result(
                          LAdd(LAdd(LAdd(LAdd(2, P), Q), Sub(1, Q)), reads[1].logf),
                          Add(Inv(P), reads[1].dlogfdp),
                          Add(Sub(Inv(Q), Inv(Sub(1, Q))), reads[1].dlogfdq)) >>
                ELSE <<>>
        off == IF m >= 1 THEN 1 ELSE 0
        nsym == (Len(reads) - off) \div 2
        sym == [k \in 1..nsym |->
                  LET n1 == reads[off + 2 * k - 1]
                      n2 == reads[off + 2 * k]
                  IN Result(
                       LAdd(LAdd(LAdd(P, LScale(Sub(1, Q), 2)), n1.logf), n2.logf),
                       Add(Add(Inv(P), n1.dlogfdp), n2.dlogfdp),
                       Add(Add(Mul(Mod(-2), Inv(Sub(1, Q))), n1.dlogfdq), n2.dlogfdq))]
    IN asym \o sym

\* logsumexp of the terms and the softmax-weighted gradient (lines 366-369).
Combine(terms) ==
    LET logf == SumSeq([k \in 1..Len(terms) |-> terms[k].logf])
        soft == [k \in 1..Len(terms) |-> Mul(terms[k].logf, Inv(logf))]
    IN Result(logf,
              SumSeq([k \in 1..Len(terms) |-> Mul(soft[k], terms[k].dlogfdp)]),
              SumSeq([k \in 1..Len(terms) |-> Mul(soft[k], terms[k].dlogfdq)]))

\* Mutant: the test of line 307 forgets (0, 1).
IsZeroEvent_OriginOnly(c, m) == c = 0 /\ m = 0

\* Line 307: c == m == 0 or (c == 0 and m == 1).
IsZeroEvent(c, m) == (c = m /\ m = 0) \/ (c = 0 /\ m = 1)

\* Lines 307-308 and 363-364: ValueError('Zero likelihood event') is raised on
\* (0, 0) and (0, 1), and on a cell for which the recurrence finds no term.
ZeroLikelihood(c, m, p, q, reads) ==
    \/ IsZeroEvent(c, m)
    \/ /\ ~(c = 1 /\ m = 0)
       /\ ~(c = 0 /\ m = 2)
       /\ Len(Terms(c, m, p, q, reads)) = 0

\* Lines 309-371: the value of a cell from the values it read.
CellValue(c, m, p, q, reads) ==
    IF c = 1 /\ m = 0
    THEN Result(Sub(1, Real(p)), Mod(-Inv(Sub(1, Real(p)))), 0)
    ELSE IF c = 0 /\ m = 2
    THEN Result(LAdd(Real(p), LScale(Real(q), 2)), Inv(Real(p)), Mul(2, Inv(Real(q))))
    ELSE Combine(Terms(c, m, p, q, reads))

\* ------------------------------------------------------------------ state
VARIABLES
    lru,            \* the functools.lru_cache of _ll_genotype: (c, m, p, q) -> result
    max_ll_cache,   \* CollapsedTree._max_ll_cache: (p, q) -> (c, m)
    stack,          \* the running bodies of _ll_genotype, innermost first
    job,            \* the caller of the kernel: idle, a direct call, or _lltree
    outcome,        \* what the last finished job returned or raised
    hist,           \* history since the caches were last cleared (for the properties)
    phase,          \* SpecTree: "new", "built", "rebuilt" or "ll"
    itree,          \* the ete3 tree given to CollapsedTree(...)
    allow,          \* its allow_repeats argument
    ct,             \* the CollapsedTree built from itree, or the error raised
    ct2,            \* the CollapsedTree built from ct.tree, or the error raised
    llres,          \* what ct.ll(p, q) returned or raised
    kernel,         \* SpecTree: _ll_genotype tabulated, (p, q) -> (c, m) -> result
    dags,           \* SpecForest: the history DAG objects, by identity
    forests,        \* the CollapsedForest objects, by identity
    call,           \* the last filter_trees call: arguments, state before, outcome
    sup,            \* SpecTree: the last _get_split or support call on ct: trees before, outcome
    files,          \* SpecIsotype: the inference log and the pickled trees on disk
    mainres,        \* what the isotype tool's main printed or raised, with its arguments
    history,        \* SpecHistory: a history of the forest's DAG, as a labelled tree
    algebras,       \* what the CM-counter and the log-likelihood algebras made of it
    sim,            \* SpecSimulate: the call of _simulate_genotype, its arguments and locals
    lb              \* SpecBranching: the call of local_branching on ct, its arguments and the node features it set

kvars == <<lru, max_ll_cache, stack, job, outcome, hist>>
tvars == <<phase, itree, allow, ct, ct2, llres, kernel>>
fvars == <<dags, forests, call>>
svars == <<sup>>
ivars == <<files, mainres>>
hvars == <<history, algebras>>
gvars == <<sim>>
bvars == <<lb>>
outside_kernel == <<tvars, fvars, svars, ivars, hvars, gvars, bvars>>
outside_tree == <<kvars, fvars, svars, ivars, hvars, gvars, bvars>>
outside_forest == <<kvars, tvars, svars, ivars, hvars, gvars, bvars>>
outside_isotype == <<kvars, tvars, fvars, svars, hvars, gvars, bvars>>
outside_history == <<kvars, tvars, fvars, svars, ivars, gvars, bvars>>
outside_simulation == <<kvars, tvars, fvars, svars, ivars, hvars, bvars>>
outside_branching == <<kvars, tvars, fvars, svars, ivars, hvars, gvars>>
vars == <<kvars, tvars, fvars, svars, ivars, hvars, gvars, bvars>>

EmptyMap == << >>

Store(map, k, v) == (k :> v) @@ map

\* Mutant: results memoized on (c, m) alone.
LruKey_CellOnly(c, m, p, q) == <<c, m, 0, 0>>

\* The key under which functools.lru_cache files a call: all four arguments.
LruKey(c, m, p, q) == <<c, m, p, q>>

FrameKey(f) == LruKey(f.c, f.m, f.p, f.q)

Frame(c, m, p, q) ==
    [c |-> c, m |-> m, p |-> p, q |-> q, pc |-> "start", todo |-> <<>>, reads |-> <<>>]

Idle == [kind |-> "idle"]
NoOutcome == [kind |-> "none"]

\* CM summaries given to _lltree: tuples of ((c, m), n).  The first three are
\* the summaries of a lone observed root, of a root with two observed leaves
\* and of a four-leaf balanced tree; the others hold a root entry (1, 1) that
\* the pseudocount put there, a repeated request order and zero-likelihood cells.
CMSummaries ==
    { << <<<<1, 0>>, 1>> >>,
      << <<<<1, 0>>, 2>>, <<<<0, 2>>, 1>> >>,
      << <<<<1, 0>>, 4>>, <<<<0, 2>>, 3>> >>,
      << <<<<0, 2>>, 1>>, <<<<1, 0>>, 2>> >>,
      << <<<<1, 0>>, 1>>, <<<<1, 1>>, 1>> >>,
      << <<<<2, 0>>, 1>>, <<<<0, 2>>, 1>>, <<<<1, 0>>, 1>> >>,
      << <<<<MaxC, 0>>, 1>>, <<<<0, MaxM>>, 1>> >>,
      << <<<<1, 0>>, 1>>, <<<<0, 1>>, 1>> >>,
      << <<<<0, 0>>, 1>> >> }

\* No CollapsedForest has been made (SpecKernel and SpecTree).
NoForests ==
    /\ dags = <<>>
    /\ forests = <<>>
    /\ call = <<>>

\* Neither _get_split nor support has been called.
NoSupport == sup = <<>>

\* The isotype tool has no files and has not run.
NoIsotype ==
    /\ files = <<>>
    /\ mainres = <<>>

\* No history of a DAG is at hand.
NoHistory ==
    /\ history = <<>>
    /\ algebras = <<>>

\* local_branching has not been called.
NoBranching ==
    /\ lb = <<>>

\* _simulate_genotype has not been called.
NoSimulation ==
    /\ sim = <<>>

InitKernel ==
    /\ lru = EmptyMap
    /\ max_ll_cache = EmptyMap
    /\ stack = <<>>
    /\ job = Idle
    /\ outcome = NoOutcome
    /\ hist = [maxc |-> 0, maxm |-> 0, clean |-> TRUE, cleared |-> FALSE]
    /\ phase = "kernel"
    /\ itree = <<>>
    /\ allow = FALSE
    /\ ct = <<>>
    /\ ct2 = <<>>
    /\ llres = <<>>
    /\ kernel = <<>>
    /\ NoForests
    /\ NoSupport
    /\ NoIsotype
    /\ NoHistory
    /\ NoBranching
    /\ NoSimulation

\* -------------------------------------------------------------- the caller
\* A direct call CollapsedTree._ll_genotype(c, m, p, q).
CallKernel(c, m, p, q) ==
    /\ job = Idle
    /\ stack = <<>>
    /\ job' = [kind |-> "kernel", cm_counts |-> << <<<<c, m>>, 1>> >>,
               p |-> p, q |-> q, logf_data |-> <<>>]
    /\ outcome' = NoOutcome
    /\ UNCHANGED <<lru, max_ll_cache, stack, hist>>
    /\ UNCHANGED outside_kernel

\* A call _lltree(cm_counts, p, q), as made by CollapsedTree.ll.
CallLLTree(cm_counts, p, q) ==
    /\ job = Idle
    /\ stack = <<>>
    /\ job' = [kind |-> "lltree", cm_counts |-> cm_counts,
               p |-> p, q |-> q, logf_data |-> <<>>]
    /\ outcome' = NoOutcome
    /\ UNCHANGED <<lru, max_ll_cache, stack, hist>>
    /\ UNCHANGED outside_kernel

\* The attributes class CollapsedTree defines (lines 37-923)
CollapsedTreeAttributes ==
    { "_max_ll_cache", "__init__", "_build_cm_counts", "_simulate_genotype",
      "_ll_genotype", "ll", "mle", "simulate", "__repr__", "render",
      "feature_colormap", "write", "newick", "compare", "_get_split",
      "_split_compatibility", "support", "local_branching" }

\* CollapsedTree._build_ll_genotype_cache(c_max, m_max, p, q), the call of
\* tests/test_ll.py: the class has no such attribute.
CallBuildCache(c_max, m_max, p, q) ==
    /\ job = Idle
    /\ stack = <<>>
    /\ "_build_ll_genotype_cache" \notin CollapsedTreeAttributes
    /\ outcome' = [kind |-> "error",
                   job |-> [kind |-> "build", cm_counts |-> << <<<<c_max, m_max>>, 1>> >>,
                            p |-> p, q |-> q],
                   val |-> "AttributeError"]
    /\ UNCHANGED <<lru, max_ll_cache, stack, job, hist>>
    /\ UNCHANGED outside_kernel

\* The cell the caller asks for next.
NextCell == job.cm_counts[Len(job.logf_data) + 1][1]

\* A top-level kernel call returned: the request enters the history.
Noted(h, c, m) ==
    [h EXCEPT !.maxc = IF c > @ THEN c ELSE @, !.maxm = IF m > @ THEN m ELSE @]

\* The caller's next call of _ll_genotype goes through the lru_cache: a hit
\* returns the stored result, a miss starts the body.
CallerCall ==
    /\ job # Idle
    /\ stack = <<>>
    /\ Len(job.logf_data) < Len(job.cm_counts)
    /\ IF LruKey(NextCell[1], NextCell[2], job.p, job.q) \in DOMAIN lru
       THEN /\ job' = [job EXCEPT !.logf_data =
                          Append(@, lru[LruKey(NextCell[1], NextCell[2], job.p, job.q)])]
            /\ hist' = Noted(hist, NextCell[1], NextCell[2])
            /\ UNCHANGED stack
       ELSE /\ stack' = << Frame(NextCell[1], NextCell[2], job.p, job.q) >>
            /\ UNCHANGED <<job, hist>>
    /\ UNCHANGED <<lru, max_ll_cache, outcome>>
    /\ UNCHANGED outside_kernel

\* logf and grad_ll_genotype of _lltree: the count-weighted sums.
LLTreeSum(cm_counts, logf_data) ==
    Result(ProdSeq([i \in 1..Len(cm_counts) |-> LScale(logf_data[i].logf, cm_counts[i][2])]),
           SumSeq([i \in 1..Len(cm_counts) |-> Mul(logf_data[i].dlogfdp, cm_counts[i][2])]),
           SumSeq([i \in 1..Len(cm_counts) |-> Mul(logf_data[i].dlogfdq, cm_counts[i][2])]))

JobId(j) == [kind |-> j.kind, cm_counts |-> j.cm_counts, p |-> j.p, q |-> j.q]

\* Every kernel call of the job has returned: the job returns.
CallerReturn ==
    /\ job # Idle
    /\ stack = <<>>
    /\ Len(job.logf_data) = Len(job.cm_counts)
    /\ outcome' = [kind |-> "value", job |-> JobId(job),
                   val |-> IF job.kind = "kernel" THEN job.logf_data[1]
                           ELSE LLTreeSum(job.cm_counts, job.logf_data)]
    /\ job' = Idle
    /\ UNCHANGED <<lru, max_ll_cache, stack, hist>>
    /\ UNCHANGED outside_kernel

\* ------------------------------------------------------ the kernel's body
Top == Head(stack)
Running(pc) == stack # <<>> /\ Top.pc = pc

\* Mutant: a new (p, q) resets _max_ll_cache and leaves the lru_cache alone.
LruAfterCheck_NoClear(p, q) == lru

\* Mutant: a fill only when the request exceeds the bound in both coordinates.
NeedsFill_Both(c, m, p, q) ==
    LET cached == IF <<p, q>> \in DOMAIN max_ll_cache THEN max_ll_cache[<<p, q>>]
                  ELSE <<0, 0>>
    IN c > cached[1] /\ m > cached[2]

\* Mutant: a new (p, q) clears the lru_cache and keeps the recorded bounds.
MaxAfterCheck_Kept(p, q) == max_ll_cache

\* Lines 278-284: the bound recorded for (p, q); an unknown (p, q) clears
\* _max_ll_cache and the lru_cache.
Known(p, q) == <<p, q>> \in DOMAIN max_ll_cache
Cached(p, q) == IF Known(p, q) THEN max_ll_cache[<<p, q>>] ELSE <<0, 0>>
LruAfterCheck(p, q) == IF Known(p, q) THEN lru ELSE EmptyMap
MaxAfterCheck(p, q) == IF Known(p, q) THEN max_ll_cache ELSE EmptyMap

\* Line 286: the request exceeds the recorded bound in a coordinate.
NeedsFill(c, m, p, q) == c > Cached(p, q)[1] \/ m > Cached(p, q)[2]

\* Line 287: the bound recorded when a fill starts.
NewBound(c, m, cached_c, cached_m) == <<c, m>>

HistAfterCheck(p, q) ==
    IF Known(p, q) THEN hist
    ELSE [maxc |-> 0, maxm |-> 0, clean |-> TRUE, cleared |-> lru # EmptyMap]

\* Lines 278-291: the body starts and finds cells to fill.
EnterFill ==
    /\ Running("start")
    /\ NeedsFill(Top.c, Top.m, Top.p, Top.q)
    /\ max_ll_cache' = Store(MaxAfterCheck(Top.p, Top.q), <<Top.p, Top.q>>,
                             NewBound(Top.c, Top.m, Cached(Top.p, Top.q)[1],
                                      Cached(Top.p, Top.q)[2]))
    /\ lru' = LruAfterCheck(Top.p, Top.q)
    /\ stack' = << [Top EXCEPT !.pc = "fill",
                               !.todo = FillOrder(Cached(Top.p, Top.q)[1],
                                                  Cached(Top.p, Top.q)[2], Top.c, Top.m)] >>
                 \o Tail(stack)
    /\ hist' = HistAfterCheck(Top.p, Top.q)
    /\ UNCHANGED <<job, outcome>>
    /\ UNCHANGED outside_kernel

\* Lines 278-286, 307-317: the body starts within the bound and goes on to
\* the recurrence of a legal cell.
EnterCompute ==
    /\ Running("start")
    /\ ~NeedsFill(Top.c, Top.m, Top.p, Top.q)
    /\ ~IsZeroEvent(Top.c, Top.m)
    /\ max_ll_cache' = MaxAfterCheck(Top.p, Top.q)
    /\ lru' = LruAfterCheck(Top.p, Top.q)
    /\ stack' = << [Top EXCEPT !.pc = "terms", !.todo = Deps(Top.c, Top.m)] >>
                 \o Tail(stack)
    /\ hist' = HistAfterCheck(Top.p, Top.q)
    /\ UNCHANGED <<job, outcome>>
    /\ UNCHANGED outside_kernel

\* An exception leaves every running body and the caller: nothing is stored.
Raised ==
    /\ stack' = <<>>
    /\ outcome' = [kind |-> "error", job |-> JobId(job), val |-> "Zero likelihood event"]
    /\ job' = Idle

\* Lines 278-286, 307-308: the body starts within the bound on (0, 0) or (0, 1).
EnterRaise ==
    /\ Running("start")
    /\ ~NeedsFill(Top.c, Top.m, Top.p, Top.q)
    /\ IsZeroEvent(Top.c, Top.m)
    /\ max_ll_cache' = MaxAfterCheck(Top.p, Top.q)
    /\ lru' = LruAfterCheck(Top.p, Top.q)
    /\ hist' = [HistAfterCheck(Top.p, Top.q) EXCEPT !.clean = FALSE]
    /\ Raised
    /\ UNCHANGED outside_kernel

\* The body on top of the stack returns v: the lru_cache stores it under the
\* call's key and the caller goes on; a body at its last line (305) returns
\* the value in turn.
RECURSIVE Unwind(_, _, _)
Unwind(stk, cache, v) ==
    LET f == Head(stk)
        cache1 == Store(cache, FrameKey(f), v)
        rest == Tail(stk)
    IN IF rest = <<>> THEN [stack |-> <<>>, lru |-> cache1, top |-> <<f.c, f.m>>]
       ELSE LET g == Head(rest)
            IN IF g.pc = "fill"
               THEN [stack |-> << [g EXCEPT !.todo = Tail(@)] >> \o Tail(rest),
                     lru |-> cache1, top |-> <<>>]
               ELSE IF g.pc = "terms"
               THEN [stack |-> << [g EXCEPT !.todo = Tail(@), !.reads = Append(@, v)] >>
                                \o Tail(rest),
                     lru |-> cache1, top |-> <<>>]
               ELSE Unwind(rest, cache1, v)

Returned(v) ==
    LET u == Unwind(stack, lru, v)
    IN /\ stack' = u.stack
       /\ lru' = u.lru
       /\ IF u.top = <<>>
          THEN UNCHANGED <<job, hist>>
          ELSE /\ job' = [job EXCEPT !.logf_data = Append(@, v)]
               /\ hist' = Noted(hist, u.top[1], u.top[2])
       /\ UNCHANGED <<max_ll_cache, outcome>>

\* Lines 292-303: the next call of the fill loops, through the lru_cache.
FillCall ==
    /\ Running("fill")
    /\ Top.todo # <<>>
    /\ IF LruKey(Head(Top.todo)[1], Head(Top.todo)[2], Top.p, Top.q) \in DOMAIN lru
       THEN stack' = << [Top EXCEPT !.todo = Tail(@)] >> \o Tail(stack)
       ELSE stack' = << Frame(Head(Top.todo)[1], Head(Top.todo)[2], Top.p, Top.q) >>
                     \o stack
    /\ UNCHANGED <<lru, max_ll_cache, job, outcome, hist>>
    /\ UNCHANGED outside_kernel

\* Line 305, after the loops: the call of the requested cell itself, through
\* the lru_cache; its result is the body's result.
TailCall ==
    /\ Running("fill")
    /\ Top.todo = <<>>
    /\ IF FrameKey(Top) \in DOMAIN lru
       THEN Returned(lru[FrameKey(Top)])
       ELSE /\ stack' = << Frame(Top.c, Top.m, Top.p, Top.q), [Top EXCEPT !.pc = "tail"] >>
                        \o Tail(stack)
            /\ UNCHANGED <<lru, max_ll_cache, job, outcome, hist>>
    /\ UNCHANGED outside_kernel

\* Lines 325, 347, 351: the recurrence reads its next cell through the
\* lru_cache; a miss runs the body of that cell (recursion).
Read ==
    /\ Running("terms")
    /\ Top.todo # <<>>
    /\ IF LruKey(Head(Top.todo)[1], Head(Top.todo)[2], Top.p, Top.q) \in DOMAIN lru
       THEN stack' = << [Top EXCEPT !.todo = Tail(@),
                                    !.reads = Append(@, lru[LruKey(Head(Top.todo)[1],
                                                        Head(Top.todo)[2], Top.p, Top.q)])] >>
                     \o Tail(stack)
       ELSE stack' = << Frame(Head(Top.todo)[1], Head(Top.todo)[2], Top.p, Top.q) >>
                     \o stack
    /\ UNCHANGED <<lru, max_ll_cache, job, outcome, hist>>
    /\ UNCHANGED outside_kernel

\* Lines 307-371 once every cell is read: the value is computed and returned,
\* or ValueError is raised when the recurrence found no term (lines 363-364).
Compute ==
    /\ Running("terms")
    /\ Top.todo = <<>>
    /\ IF ZeroLikelihood(Top.c, Top.m, Top.p, Top.q, Top.reads)
       THEN /\ hist' = [hist EXCEPT !.clean = FALSE]
            /\ UNCHANGED <<lru, max_ll_cache>>
            /\ Raised
       ELSE Returned(CellValue(Top.c, Top.m, Top.p, Top.q, Top.reads))
    /\ UNCHANGED outside_kernel

NextKernel ==
    \/ \E cell \in Cells, pq \in Params : CallKernel(cell[1], cell[2], pq[1], pq[2])
    \/ \E cm \in CMSummaries, pq \in Params : CallLLTree(cm, pq[1], pq[2])
    \/ \E pq \in Params : CallBuildCache(MaxC, MaxM, pq[1], pq[2])
    \/ CallerCall
    \/ CallerReturn
    \/ EnterFill
    \/ EnterCompute
    \/ EnterRaise
    \/ FillCall
    \/ TailCall
    \/ Read
    \/ Compute

SpecKernel == InitKernel /\ [][NextKernel]_vars

\* ------------------------------------------------------------- references
\* The recurrence of lines 307-371 followed without any cache: what a call
\* computes when nothing was computed before it.
RECURSIVE ll_recurrence(_, _, _, _)
ll_recurrence(c, m, p, q) ==
    LET deps == Deps(c, m)
    IN CellValue(c, m, p, q,
                 [k \in 1..Len(deps) |-> ll_recurrence(deps[k][1], deps[k][2], p, q)])

ZeroCells == {<<0, 0>>, <<0, 1>>}

FreshTable ==
    [k \in ((Cells \ ZeroCells) \X Params) |->
        ll_recurrence(k[1][1], k[1][2], k[2][1], k[2][2])]

FreshValue(c, m, p, q) == FreshTable[<<<<c, m>>, <<p, q>>>>]

\* The cells of the lru_cache
CachedCells == {<<k[1], k[2]>> : k \in DOMAIN lru}

Frames == {stack[i] : i \in 1..Len(stack)}

KernelJobDone(kind) ==
    /\ outcome.kind = kind
    /\ outcome.job.kind = "kernel"

OutcomeCell == outcome.job.cm_counts[1][1]

\* ------------------------------------------------------------- properties
\* C1: a kernel call on (0, 0) or (0, 1) never returns a value and never
\* leaves an entry for such a cell in the cache, whatever the cache held: a
\* finished call on such a cell has raised, no running body of such a cell
\* reaches the recurrence, and no such cell is memoized or handed to _lltree.
C1_ZeroLikelihoodRaises ==
    /\ \A k \in DOMAIN lru : <<k[1], k[2]>> \notin ZeroCells
    /\ \A f \in Frames : f.pc = "terms" => <<f.c, f.m>> \notin ZeroCells
    /\ outcome.kind = "value" =>
          \A i \in 1..Len(outcome.job.cm_counts) :
              outcome.job.cm_counts[i][1] \notin ZeroCells
    /\ job # Idle =>
          \A i \in 1..Len(job.logf_data) : job.cm_counts[i][1] \notin ZeroCells

\* C1 witness: a direct call on (0, 1) has raised although cells were
\* memoized for its (p, q) before and stay memoized.
C1_Witness ==
    /\ KernelJobDone("error")
    /\ OutcomeCell = <<0, 1>>
    /\ lru # EmptyMap
    /\ <<outcome.job.p, outcome.job.q>> \in DOMAIN max_ll_cache

\* C2: while a body computes for (p, q) (it is past the check of lines
\* 278-284), the lru_cache holds entries of (p, q) only and _max_ll_cache
\* holds no other key; and every value a direct call returns is the value
\* the recurrence gives without any cache.
C2_SwitchDiscardsAndAgrees ==
    /\ \A f \in Frames :
          f.pc # "start" =>
             /\ DOMAIN max_ll_cache = {<<f.p, f.q>>}
             /\ \A k \in DOMAIN lru : <<k[3], k[4]>> = <<f.p, f.q>>
    /\ KernelJobDone("value") =>
          outcome.val = FreshValue(OutcomeCell[1], OutcomeCell[2],
                                   outcome.job.p, outcome.job.q)

\* C2 witness: a direct call returned a value after its (p, q) replaced a
\* non-empty cache of other parameters.
C2_Witness ==
    /\ KernelJobDone("value")
    /\ hist.cleared
    /\ <<outcome.job.p, outcome.job.q>> \in DOMAIN max_ll_cache

\* The legal cells of the rectangle [0..c] x [0..m]
Rectangle(c, m) == {x \in (0..c) \X (0..m) : x \notin ZeroCells}

\* C3: when no call is running and every call since the caches were cleared
\* has returned, the memoized cells are exactly the legal cells of the
\* rectangle spanned by the largest c and the largest m requested.
C3_MonotoneFill ==
    (stack = <<>> /\ hist.clean) => CachedCells = Rectangle(hist.maxc, hist.maxm)

\* C3 witness: the last call asked for (MaxC, 0) after an earlier call at the
\* same (p, q) had asked for MaxM mutant clades.
C3_Witness ==
    /\ KernelJobDone("value")
    /\ OutcomeCell = <<MaxC, 0>>
    /\ hist.clean
    /\ hist.maxm = MaxM

\* The count-weighted sum of the cache-free values of a CM summary.
FreshTreeValue(cm_counts, p, q) ==
    LLTreeSum(cm_counts,
              [i \in 1..Len(cm_counts) |->
                  FreshValue(cm_counts[i][1][1], cm_counts[i][1][2], p, q)])

\* C4: the value _lltree returns for a CM summary and (p, q) is the
\* count-weighted sum of the cache-free kernel values, whatever calls came
\* before; so two trees with the same CM summary get the same value.
C4_LLTreePure ==
    (outcome.kind = "value" /\ outcome.job.kind = "lltree") =>
        outcome.val = FreshTreeValue(outcome.job.cm_counts, outcome.job.p, outcome.job.q)

\* C4 witness: _lltree returned for a summary of several entries from a cache
\* that earlier calls at the same (p, q) had filled beyond what it asks for.
C4_Witness ==
    /\ outcome.kind = "value"
    /\ outcome.job.kind = "lltree"
    /\ Len(outcome.job.cm_counts) > 1
    /\ hist.maxc = MaxC
    /\ hist.maxm = MaxM
    /\ \A i \in 1..Len(outcome.job.cm_counts) :
          outcome.job.cm_counts[i][1] # <<MaxC, MaxM>>

\* The call that started the running computation
Bottom == stack[Len(stack)]

\* The cell the running recurrence reads next
NextRead == LruKey(Head(Top.todo)[1], Head(Top.todo)[2], Top.p, Top.q)

\* C19: whenever a recurrence is about to read a cell, (c, m - 1) or a half
\* of a legal split, the cell is memoized; so only the innermost running body
\* is ever in its recurrence and none was started from inside a recurrence.
C19_DependenciesMemoized ==
    /\ (Running("terms") /\ Top.todo # <<>>) => NextRead \in DOMAIN lru
    /\ \A i \in 2..Len(stack) : stack[i].pc # "terms"

\* C19 witness: a recurrence reads a memoized cell during the fill of a
\* request that asks for more clonal leaves and fewer mutant clades than
\* the calls returned before it at the same (p, q).
C19_Witness ==
    /\ Len(stack) >= 2
    /\ Bottom.pc = "fill"
    /\ hist.clean
    /\ hist.maxm > 0
    /\ Bottom.c > hist.maxc
    /\ Bottom.m < hist.maxm
    /\ Running("terms")
    /\ Top.todo # <<>>
    /\ NextRead \in DOMAIN lru

\* The (p, q) whose bound is recorded before and after a step
StayingParams == DOMAIN max_ll_cache \cap DOMAIN max_ll_cache'

\* C20: while (p, q) stays recorded, no step lowers a coordinate of its
\* bound (cached_c, cached_m) and no step drops a memoized cell of (p, q).
C20_CacheGrowsMonotonically ==
    [][\A pq \in StayingParams :
          /\ max_ll_cache'[pq][1] >= max_ll_cache[pq][1]
          /\ max_ll_cache'[pq][2] >= max_ll_cache[pq][2]
          /\ \A k \in DOMAIN lru : <<k[3], k[4]>> = pq => k \in DOMAIN lru']_vars

\* C17: a call _build_ll_genotype_cache(c_max, m_max, p, q) with c_max and
\* m_max at least 1 completes without raising, with the cache built up to
\* (c_max, m_max).
C17_BuildCacheCompletes ==
    (outcome.kind # "none" /\ outcome.job.kind = "build") =>
        /\ outcome.kind # "error"
        /\ Rectangle(OutcomeCell[1], OutcomeCell[2]) \subseteq CachedCells

\* The members of a list
SeqRange(s) == {s[i] : i \in DOMAIN s}

\* =================================================================== trees
\* An ete3 tree of at most MaxNodes nodes.  Nodes are numbered 1..n in
\* preorder and node 1 is the root; up[1] = 0 stands for None.  kids[x] is the
\* list x.children.  A sequence is a tuple of bases, a name is a string or,
\* after a merge, a tuple of strings (held as the set of its members, the
\* order of a tuple built from a Python set being arbitrary).
MaxNodes == 3

SequenceSet == {<<0, 0>>, <<0, 1>>, <<1, 1>>}
Abundances == {0, 1, 2, 3}
NodeNames == <<"naive", "a", "b", "c", "d", "e">>

StrName(x) == [str |-> TRUE, ids |-> {x}]
\* tuple(set), replaced by its only member when it has one (lines 114-120)
TupleName(set) == [str |-> Cardinality(set) = 1, ids |-> set]

\* gctree.utils.hamming_distance: the number of positions that differ
hamming_distance(s1, s2) == Cardinality({i \in 1..Len(s1) : s1[i] # s2[i]})

Max(a, b) == IF a > b THEN a ELSE b

RECURSIVE Ancestors(_, _)
\* x and the nodes above it, by the parent vector par
Ancestors(par, x) == IF x = 0 THEN {} ELSE {x} \cup Ancestors(par, par[x])

\* The parent vectors of the ordered trees of n nodes numbered in preorder.
ParentVectors(n) ==
    {par \in [1..n -> 0..(n - 1)] :
        /\ par[1] = 0
        /\ \A i \in 2..n : par[i] \in Ancestors(par, i - 1)}

InputTree(n, par, sq, ab) ==
    [nodes |-> 1..n,
     up    |-> par,
     kids  |-> [x \in 1..n |-> SelectSeq(Range(1, n + 1), LAMBDA y : par[y] = x)],
     name  |-> [x \in 1..n |-> StrName(NodeNames[x])],
     seq   |-> sq,
     abund |-> ab,
     dist  |-> [x \in 1..n |-> 1]]

\* ------------------------------------------------------------- traversals
RECURSIVE Preorder(_, _)
RECURSIVE PreorderAll(_, _)
\* ete3's preorder: the node, then the subtrees of its children in order
Preorder(t, x) == <<x>> \o PreorderAll(t, t.kids[x])
PreorderAll(t, xs) ==
    IF xs = <<>> THEN <<>> ELSE Preorder(t, Head(xs)) \o PreorderAll(t, Tail(xs))

RECURSIVE Postorder(_, _)
RECURSIVE PostorderAll(_, _)
\* ete3's postorder: the subtrees of the children in order, then the node
Postorder(t, x) == PostorderAll(t, t.kids[x]) \o <<x>>
PostorderAll(t, xs) ==
    IF xs = <<>> THEN <<>> ELSE Postorder(t, Head(xs)) \o PostorderAll(t, Tail(xs))

\* ete3's level order, the default of iter_descendants(), get_descendants() and traverse()
RECURSIVE LevelOrder(_, _)
LevelOrder(t, queue) ==
    IF queue = <<>> THEN <<>>
    ELSE <<Head(queue)>> \o LevelOrder(t, Tail(queue) \o t.kids[Head(queue)])

\* tree.iter_descendants(): every node but the tree's root
Descendants(order) == SelectSeq(order, LAMBDA x : x # 1)

\* ete3's TreeNode.delete(prevent_nondicotomic=False): the children are
\* appended to the parent's children, then the node is removed from them.
Delete(t, x) ==
    LET parent == t.up[x]
    IN [t EXCEPT !.nodes = @ \ {x},
                 !.kids[parent] = SelectSeq(@ \o t.kids[x], LAMBDA y : y # x),
                 !.up = [y \in DOMAIN @ |->
                            IF y = x THEN 0
                            ELSE IF t.up[y] = x THEN parent ELSE @[y]]]

\* Lines 71-74: remove unobserved internal unifurcations.
RECURSIVE RemoveUnifurcations(_, _)
RemoveUnifurcations(t, order) ==
    IF order = <<>> THEN t
    ELSE LET node == Head(order)
         IN RemoveUnifurcations(
                IF t.abund[node] = 0 /\ Len(t.kids[node]) = 1 THEN Delete(t, node) ELSE t,
                Tail(order))

\* Mutant: the distances of the input are kept.
SetDistances_Kept(t) == t

\* Lines 76-80: every node below the root gets the Hamming distance to its parent.
SetDistances(t) ==
    [t EXCEPT !.dist = [x \in DOMAIN @ |->
                           IF x \in t.nodes /\ x # 1
                           THEN hamming_distance(t.seq[x], t.seq[t.up[x]])
                           ELSE @[x]]]

\* Lines 86-89: the names of the nodes with an abundance, and the root's name.
ObservedGenotypes(t) == {t.name[x] : x \in {y \in t.nodes : t.abund[y] # 0}} \cup {t.name[1]}

\* Python's set < set between a set of identifiers and a set of names: every
\* identifier is one of the names, and the sets differ.
ProperSubset(ids, names) ==
    /\ \A i \in ids : StrName(i) \in names
    /\ Cardinality(ids) < Cardinality(names)

\* Lines 104-120: the name of the parent after a merge of node into it.
MergedName(t, node, observed_genotypes) ==
    LET node_set == t.name[node].ids
        node_up_set == t.name[t.up[node]].ids
    IN IF ProperSubset(node_up_set, observed_genotypes)
       THEN IF ProperSubset(node_set, observed_genotypes)
            THEN TupleName(node_set \cup node_up_set)
            ELSE t.name[t.up[node]]
       ELSE IF ProperSubset(node_set, observed_genotypes)
            THEN TupleName(node_set)
            ELSE t.name[t.up[node]]

\* Line 93: the abundance of the parent after a merge.
MergedAbundance(child, parent) == Max(child, parent)

\* Lines 91-121: a node at distance 0 is merged into its parent and deleted.
CollapseNode(t, node, observed_genotypes) ==
    IF t.dist[node] = 0
    THEN Delete([t EXCEPT !.abund[t.up[node]] = MergedAbundance(t.abund[node], @),
                          !.name[t.up[node]] = MergedName(t, node, observed_genotypes)],
                node)
    ELSE t

\* Lines 90-121: the loop over get_descendants(strategy="postorder").
RECURSIVE Collapse(_, _, _)
Collapse(t, order, observed_genotypes) ==
    IF order = <<>> THEN t
    ELSE Collapse(CollapseNode(t, Head(order), observed_genotypes), Tail(order),
                  observed_genotypes)

\* Lines 132-135: the names of the nodes with an abundance, and of the root.
FinalObservedGenotypes(t) ==
    {t.name[x] : x \in {y \in t.nodes : t.abund[y] > 0 \/ y = 1}}

\* Lines 145-153: observed nodes minus distinct observed sequences.
RepSeq(t) ==
    Cardinality({x \in t.nodes : t.abund[x] > 0})
    - Cardinality({t.seq[x] : x \in {y \in t.nodes : t.abund[y] > 0}})

\* Line 183: abundance plus the partitions of the children.
RECURSIVE Partition(_, _)
RECURSIVE PartitionSum(_, _)
Partition(t, x) == t.abund[x] + PartitionSum(t, t.kids[x])
PartitionSum(t, xs) ==
    IF xs = <<>> THEN 0 ELSE Partition(t, Head(xs)) + PartitionSum(t, Tail(xs))

\* Python's order of two sequences (strings): by the first position that differs.
RECURSIVE SeqLess(_, _)
SeqLess(s1, s2) ==
    IF s1 = <<>> \/ s2 = <<>> THEN s1 = <<>> /\ s2 # <<>>
    ELSE IF Head(s1) # Head(s2) THEN Head(s1) < Head(s2)
    ELSE SeqLess(Tail(s1), Tail(s2))

\* Line 186: the key (partition, sequence) of x is below that of y.
KeyLess(t, x, y) ==
    \/ Partition(t, x) < Partition(t, y)
    \/ Partition(t, x) = Partition(t, y) /\ SeqLess(t.seq[x], t.seq[y])

\* list.sort is stable: x goes behind every element whose key is not above its own.
RECURSIVE InsertSorted(_, _, _)
InsertSorted(t, sorted, x) ==
    IF sorted = <<>> THEN <<x>>
    ELSE IF KeyLess(t, x, Head(sorted)) THEN <<x>> \o sorted
    ELSE <<Head(sorted)>> \o InsertSorted(t, Tail(sorted), x)

RECURSIVE SortChildren(_, _, _)
SortChildren(t, xs, sorted) ==
    IF xs = <<>> THEN sorted
    ELSE SortChildren(t, Tail(xs), InsertSorted(t, sorted, Head(xs)))

\* Lines 179-186: the partition feature and the sorted children of every node.
Ladderize(t) ==
    [nodes |-> t.nodes, up |-> t.up, name |-> t.name, seq |-> t.seq,
     abund |-> t.abund, dist |-> t.dist,
     kids |-> [x \in DOMAIN t.kids |->
                  IF x \in t.nodes THEN SortChildren(t, t.kids[x], <<>>) ELSE t.kids[x]],
     partition |-> [x \in DOMAIN t.kids |-> IF x \in t.nodes THEN Partition(t, x) ELSE 0]]

\* str(unobserved_count)
Digits == <<"1", "2", "3", "4", "5", "6", "7", "8">>

\* Lines 177-194: in postorder, every node below the root with abundance 0 is
\* named by a counter, nodes of one sequence sharing one name.
RECURSIVE Rename(_, _, _, _)
Rename(t, order, unobserved_count, unobserved_dict) ==
    IF order = <<>> THEN t
    ELSE LET node == Head(order)
         IN IF t.abund[node] = 0 /\ node # 1
            THEN IF t.seq[node] \in DOMAIN unobserved_dict
                 THEN Rename([t EXCEPT !.name[node] = unobserved_dict[t.seq[node]]],
                             Tail(order), unobserved_count, unobserved_dict)
                 ELSE Rename([t EXCEPT !.name[node] = StrName(Digits[unobserved_count])],
                             Tail(order), unobserved_count + 1,
                             Store(unobserved_dict, t.seq[node],
                                   StrName(Digits[unobserved_count])))
            ELSE Rename(t, Tail(order), unobserved_count, unobserved_dict)

\* collections.Counter(list).items(): each value with its count, in the order
\* of first occurrence.
RECURSIVE CounterItems(_, _)
CounterItems(list, seen) ==
    IF list = <<>> THEN <<>>
    ELSE IF Head(list) \in seen THEN CounterItems(Tail(list), seen)
    ELSE << <<Head(list), Len(SelectSeq(list, LAMBDA x : x = Head(list)))>> >>
         \o CounterItems(Tail(list), seen \cup {Head(list)})

\* Mutant: no pseudocount at the root.
RootCM_Never(c, m) == <<c, m>>

\* Lines 207-211: the root's (c, m), (0, 1) being replaced by (1, 1).
RootCM(c, m) == IF <<c, m>> = <<0, 1>> THEN <<1, 1>> ELSE <<c, m>>

\* Lines 199-212: _build_cm_counts.
build_cm_counts(t) ==
    LET desc == Descendants(LevelOrder(t, <<1>>))
        cmlist == [k \in 1..Len(desc) |-> <<t.abund[desc[k]], Len(t.kids[desc[k]])>>]
    IN CounterItems(Append(cmlist, RootCM(t.abund[1], Len(t.kids[1]))), {})

NoTree == [nodes |-> {}]

Failed(error) == [status |-> error, tree |-> NoTree, cm_counts |-> <<>>]

\* The nodes and features left in the object: those reachable from the root.
Live(t) ==
    [nodes |-> t.nodes,
     up |-> [x \in t.nodes |-> t.up[x]],
     kids |-> [x \in t.nodes |-> t.kids[x]],
     name |-> [x \in t.nodes |-> t.name[x]],
     seq |-> [x \in t.nodes |-> t.seq[x]],
     abund |-> [x \in t.nodes |-> t.abund[x]],
     dist |-> [x \in t.nodes |-> t.dist[x]],
     partition |-> [x \in t.nodes |-> t.partition[x]]]

\* Mutants: the checks of lines 136 and 154 never reject.
NamesDiffer_Never(t, observed_genotypes) == FALSE
RepeatsRejected_Never(t, allow_repeats) == FALSE

\* Lines 136 and 154: the two checks that reject a collapsed tree.
NamesDiffer(t, observed_genotypes) == FinalObservedGenotypes(t) # observed_genotypes
RepeatsRejected(t, allow_repeats) == ~allow_repeats /\ RepSeq(t) # 0

\* Lines 58-80: the copy with the root's dist set to 0, the unobserved
\* unifurcations removed and the distances set.
BeforeCollapse(tree) ==
    LET t0 == [tree EXCEPT !.dist[1] = 0]
    IN SetDistances(RemoveUnifurcations(t0, Descendants(LevelOrder(t0, <<1>>))))

\* Lines 86-121: the tree after the collapse loop.
AfterCollapse(tree) ==
    LET t2 == BeforeCollapse(tree)
    IN Collapse(t2, Descendants(Postorder(t2, 1)), ObservedGenotypes(t2))

\* Line 127 reads the loop variable node, which no loop has bound when the
\* tree has no node below its root.
NodeUnbound(tree) == Len(Descendants(LevelOrder(tree, <<1>>))) = 0

\* CollapsedTree.__init__(tree, allow_repeats), lines 57-195.
CollapsedTree(tree, allow_repeats) ==
    LET observed_genotypes == ObservedGenotypes(BeforeCollapse(tree))
        t3 == AfterCollapse(tree)
        t4 == Rename(Ladderize(t3), Postorder(t3, 1), 1, EmptyMap)
    IN IF NodeUnbound(tree) THEN Failed("UnboundLocalError")
       ELSE IF NamesDiffer(t3, observed_genotypes) THEN Failed("RuntimeError")
       ELSE IF RepeatsRejected(t3, allow_repeats) THEN Failed("RuntimeError")
       ELSE [status |-> "ok", tree |-> Live(t4), cm_counts |-> build_cm_counts(t4)]

\* Lines 712-731: compare(method="identity") sorts the (sequence, abundance,
\* parent sequence) triples of each tree and compares the lists, that is the
\* bags of triples.  The root's parent sequence is None: sorted() raises
\* TypeError when it has to order the root's triple and the triple of a node
\* of the root's sequence and abundance.
Triple(t, x) == <<t.seq[x], t.abund[x], IF t.up[x] = 0 THEN <<>> ELSE t.seq[t.up[x]]>>
TripleBag(t) ==
    [tr \in {Triple(t, x) : x \in t.nodes} |->
        Cardinality({x \in t.nodes : Triple(t, x) = tr})]
SortRaises(t) ==
    \E x \in t.nodes : t.up[x] # 0 /\ t.seq[x] = t.seq[1] /\ t.abund[x] = t.abund[1]
compare(self, tree2) ==
    IF SortRaises(self) \/ SortRaises(tree2)
    THEN [raised |-> "TypeError", same |-> FALSE]
    ELSE [raised |-> "none", same |-> TripleBag(self) = TripleBag(tree2)]

\* The largest abundance of an input node
MaxAbundance == CHOOSE a \in Abundances : \A b \in Abundances : b <= a

\* Lines 286-305 and 318-369: the lru_cache after the fill of the rectangle
\* [0..c] x [0..m] from empty caches, every cell computed once from the cells
\* the fill stored before it.
RECURSIVE Fill(_, _, _, _)
Fill(cells, cache, p, q) ==
    IF cells = <<>> THEN cache
    ELSE LET c == Head(cells)[1]
             m == Head(cells)[2]
             deps == Deps(c, m)
             reads == [k \in 1..Len(deps) |-> cache[deps[k]]]
             stored == Store(cache, Head(cells), CellValue(c, m, p, q, reads))
         IN IF DOMAIN stored = {} THEN stored ELSE Fill(Tail(cells), stored, p, q)

RECURSIVE FillEach(_)
FillEach(params) ==
    IF params = {} THEN EmptyMap
    ELSE LET pq == CHOOSE x \in params : TRUE
         IN Store(FillEach(params \ {pq}), pq,
                  Fill(FillOrder(0, 0, MaxAbundance, MaxNodes), EmptyMap, pq[1], pq[2]))

\* _ll_genotype on every cell a node of a tree can have, for every (p, q).
KernelTable == FillEach(Params)

\* CollapsedTree.ll(p, q), lines 392-394 and _lltree: the kernel at every entry
\* of _cm_counts, ValueError when an entry is a zero-likelihood cell.
ll(self, p, q) ==
    IF \E i \in 1..Len(self.cm_counts) :
          IsZeroEvent(self.cm_counts[i][1][1], self.cm_counts[i][1][2])
    THEN [kind |-> "error", val |-> "Zero likelihood event"]
    ELSE [kind |-> "value",
          val |-> LLTreeSum(self.cm_counts,
                            [i \in 1..Len(self.cm_counts) |->
                                kernel[<<p, q>>][self.cm_counts[i][1]]])]

\* ------------------------------------------------------------------ support
\* tree.get_descendants()
get_descendants(t) == Descendants(LevelOrder(t, <<1>>))

\* The names of the observed nodes, and of the root, among the given nodes
Taxa(t, nodes) == UNION {t.name[x].ids : x \in {y \in nodes : t.abund[y] > 0 \/ y = 1}}

\* node.detach() followed by parent.add_child(node): the node becomes the last
\* child of its parent
Reattach(t, node) ==
    [t EXCEPT !.kids[t.up[node]] = SelectSeq(@, LAMBDA y : y # node) \o <<node>>]

\* Python's < on sets
SetLess(a, b) == a \subseteq b /\ a # b

\* CollapsedTree._get_split(node): what is raised, the tree afterwards and the
\* bipartition
get_split(t, node) ==
    LET below == SeqRange(Preorder(t, node))
        taxa1 == Taxa(t, below)
        taxa2 == Taxa(t, t.nodes \ below)
    IN IF node = 1
       THEN [raised |-> "ValueError", tree |-> t, split |-> <<>>]
       ELSE IF ~(taxa1 \cap taxa2 = {} /\ taxa1 \cup taxa2 = Taxa(t, t.nodes))
       THEN [raised |-> "AssertionError", tree |-> Reattach(t, node), split |-> <<>>]
       ELSE [raised |-> "none", tree |-> Reattach(t, node),
             split |-> IF SetLess(taxa2, taxa1) THEN <<taxa2, taxa1>> ELSE <<taxa1, taxa2>>]

\* CollapsedTree._split_compatibility(split1, split2)
split_compatibility(split1, split2) ==
    LET taxa(split) == split[1] \cup split[2]
    IN IF taxa(split1) # taxa(split2)
       THEN [raised |-> "ValueError", val |-> FALSE]
       ELSE [raised |-> "none",
             val |-> \E i, j \in 1..2 : split1[i] \cap split2[j] = {}]

\* The loop of support over the nodes of one bootstrap tree (lines 850-859)
RECURSIVE BootLoop(_, _, _, _, _, _)
BootLoop(boot, boot_nodes, split, compatibility, compatible, supported) ==
    IF boot_nodes = <<>>
    THEN [raised |-> "none", tree |-> boot, compatible |-> compatible, supported |-> supported]
    ELSE LET g == get_split(boot, Head(boot_nodes))
             asked == compatibility /\ compatible
             c == split_compatibility(split, g.split)
         IN IF g.raised # "none"
            THEN [raised |-> g.raised, tree |-> g.tree,
                  compatible |-> compatible, supported |-> supported]
            ELSE IF asked /\ c.raised # "none"
            THEN [raised |-> c.raised, tree |-> g.tree,
                  compatible |-> compatible, supported |-> supported]
            ELSE BootLoop(g.tree, Tail(boot_nodes), split, compatibility,
                          IF asked /\ ~c.val THEN FALSE ELSE compatible,
                          IF ~compatibility /\ ~supported /\ g.split = split
                          THEN TRUE ELSE supported)

\* CollapsedTree.support([boot], compatibility=...) without weights: the loop
\* over the nodes of the tree (lines 845-864)
RECURSIVE SupportLoop(_, _, _, _, _)
SupportLoop(t, boot, nodes, compatibility, support) ==
    IF nodes = <<>>
    THEN [raised |-> "none", tree |-> t, boot |-> boot, support |-> support]
    ELSE LET g == get_split(t, Head(nodes))
             b == BootLoop(boot, get_descendants(boot), g.split, compatibility, TRUE, FALSE)
             count == IF compatibility
                      THEN (IF b.compatible THEN 1 ELSE 0)
                      ELSE (IF b.supported THEN 1 ELSE 0)
         IN IF g.raised # "none"
            THEN [raised |-> g.raised, tree |-> g.tree, boot |-> boot, support |-> support]
            ELSE IF b.raised # "none"
            THEN [raised |-> b.raised, tree |-> g.tree, boot |-> b.tree, support |-> support]
            ELSE SupportLoop(g.tree, b.tree, Tail(nodes), compatibility,
                             Store(support, Head(nodes), count))

support(self, boot, compatibility) ==
    SupportLoop(self.tree, boot.tree, get_descendants(self.tree), compatibility, EmptyMap)

\* ------------------------------------------------------- the tree machine
InitTree ==
    /\ lru = EmptyMap
    /\ max_ll_cache = EmptyMap
    /\ stack = <<>>
    /\ job = Idle
    /\ outcome = NoOutcome
    /\ hist = [maxc |-> 0, maxm |-> 0, clean |-> TRUE, cleared |-> FALSE]
    /\ phase = "new"
    /\ itree = <<>>
    /\ allow = FALSE
    /\ ct = <<>>
    /\ ct2 = <<>>
    /\ llres = <<>>
    /\ kernel = KernelTable
    /\ NoForests
    /\ NoSupport
    /\ NoIsotype
    /\ NoHistory
    /\ NoBranching
    /\ NoSimulation

\* CollapsedTree(tree, allow_repeats) on an input tree of at most MaxNodes nodes.
Construct ==
    /\ phase = "new"
    /\ \E n \in 1..MaxNodes, allow_repeats \in BOOLEAN :
          \E par \in ParentVectors(n), sq \in [1..n -> SequenceSet], ab \in [1..n -> Abundances] :
              \E tree \in {InputTree(n, par, sq, ab)} :
                 /\ itree' = tree
                 /\ allow' = allow_repeats
                 /\ ct' = CollapsedTree(tree, allow_repeats)
    /\ phase' = "built"
    /\ UNCHANGED <<ct2, llres, kernel, outside_tree>>

\* CollapsedTree(ct.tree, allow_repeats): collapsing the collapsed tree.
Reconstruct ==
    /\ phase = "built"
    /\ ct.status = "ok"
    /\ phase' = "rebuilt"
    /\ ct2' = CollapsedTree(ct.tree, allow)
    /\ UNCHANGED <<itree, allow, ct, llres, kernel, outside_tree>>

\* ct.ll(p, q)
TreeLL(p, q) ==
    /\ phase = "built"
    /\ ct.status = "ok"
    /\ phase' = "ll"
    /\ llres' = [p |-> p, q |-> q, res |-> ll(ct, p, q)]
    /\ UNCHANGED <<itree, allow, ct, ct2, kernel, outside_tree>>

\* ct._get_split(node), with ct2 at hand
GetSplit(node) ==
    /\ phase = "rebuilt"
    /\ ct2.status = "ok"
    /\ node \in ct.tree.nodes
    /\ \E g \in {get_split(ct.tree, node)} :
          /\ ct' = [ct EXCEPT !.tree = g.tree]
          /\ sup' = [op |-> "_get_split", before |-> ct.tree, boot_before |-> ct2.tree,
                     raised |-> g.raised, node |-> node]
    /\ phase' = "split"
    /\ UNCHANGED <<itree, allow, ct2, llres, kernel, kvars, fvars, ivars, hvars, gvars, bvars>>

\* ct.support([ct2], compatibility=compatibility)
Support(compatibility) ==
    /\ phase = "rebuilt"
    /\ ct2.status = "ok"
    /\ \E r \in {support(ct, ct2, compatibility)} :
          /\ ct' = [ct EXCEPT !.tree = r.tree]
          /\ ct2' = [ct2 EXCEPT !.tree = r.boot]
          /\ sup' = [op |-> "support", before |-> ct.tree, boot_before |-> ct2.tree,
                     raised |-> r.raised, support |-> r.support]
    /\ phase' = "supported"
    /\ UNCHANGED <<itree, allow, llres, kernel, kvars, fvars, ivars, hvars, gvars, bvars>>

NextTree ==
    \/ Construct
    \/ Reconstruct
    \/ \E pq \in Params : TreeLL(pq[1], pq[2])
    \/ \E node \in 1..MaxNodes : GetSplit(node)
    \/ \E compatibility \in BOOLEAN : Support(compatibility)

SpecTree == InitTree /\ [][NextTree]_vars

\* ------------------------------------------- the machine of larger trees
\* Construction alone, on input trees of one more node over fewer sequences
\* and abundances.
MaxInputNodes == 4

ShortSequenceSet == {<<0, 0>>, <<0, 1>>}
ShortAbundances == {0, 1}

InitCollapse ==
    /\ lru = EmptyMap
    /\ max_ll_cache = EmptyMap
    /\ stack = <<>>
    /\ job = Idle
    /\ outcome = NoOutcome
    /\ hist = [maxc |-> 0, maxm |-> 0, clean |-> TRUE, cleared |-> FALSE]
    /\ phase = "new"
    /\ itree = <<>>
    /\ allow = FALSE
    /\ ct = <<>>
    /\ ct2 = <<>>
    /\ llres = <<>>
    /\ kernel = <<>>
    /\ NoForests
    /\ NoSupport
    /\ NoIsotype
    /\ NoHistory
    /\ NoBranching
    /\ NoSimulation

\* CollapsedTree(tree, allow_repeats) on an input tree of at most MaxInputNodes nodes.
ConstructLarge ==
    /\ phase = "new"
    /\ \E n \in 1..MaxInputNodes, allow_repeats \in BOOLEAN :
          \E par \in ParentVectors(n), sq \in [1..n -> ShortSequenceSet],
             ab \in [1..n -> ShortAbundances] :
              \E tree \in {InputTree(n, par, sq, ab)} :
                 /\ itree' = tree
                 /\ allow' = allow_repeats
                 /\ ct' = CollapsedTree(tree, allow_repeats)
    /\ phase' = "built"
    /\ UNCHANGED <<ct2, llres, kernel, outside_tree>>

NextCollapse == ConstructLarge

SpecCollapse == InitCollapse /\ [][NextCollapse]_vars

\* --------------------------------------------------------- local branching
\* ct.local_branching(tau, tau0, infinite_root_branch, nan_root_lbr) with the
\* float tau = 1 / ln 2, so that np.exp(-d / tau) is 2^-d.  A number is held as
\* n / 2^e in units of tau; np tells a numpy float from a Python number, whose
\* division by zero raises.
RECURSIVE TwoTo(_)
TwoTo(d) == IF d = 0 THEN 1 ELSE 2 * TwoTo(d - 1)

RECURSIVE Dyadic(_, _, _)
Dyadic(n, e, np) ==
    IF e > 0 /\ n % 2 = 0 THEN Dyadic(n \div 2, e - 1, np)
    ELSE [n |-> n, e |-> e, np |-> np]

\* The int 0 and the argument tau
IntZero == Dyadic(0, 0, FALSE)
Tau == Dyadic(1, 0, FALSE)

\* a + b
DyAdd(a, b) ==
    LET e == Max(a.e, b.e)
    IN Dyadic(a.n * TwoTo(e - a.e) + b.n * TwoTo(e - b.e), e, a.np \/ b.np)

\* sum(f[k] for k in keys)
RECURSIVE DySum(_, _)
DySum(f, keys) ==
    IF keys = {} THEN IntZero
    ELSE LET k == CHOOSE x \in keys : TRUE
         IN DyAdd(f[k], DySum(f, keys \ {k}))

\* tau * (1 - np.exp(-d / tau))
Integral(d) == Dyadic(TwoTo(d) - 1, d, TRUE)

\* np.exp(-d / tau) * x
Decay(d, x) == Dyadic(x.n, x.e + d, TRUE)

\* Line 881: clone_contribution, and abundance * clone_contribution
clone_contribution(tau0) == Integral(tau0)
Clones(abundance, tau0) ==
    Dyadic(abundance * clone_contribution(tau0).n, clone_contribution(tau0).e, TRUE)

\* Lines 884-896: node.LB_down, a dict keyed by the node and its children,
\* and the sum of its values
RECURSIVE LB_down(_, _, _), DownTotal(_, _, _)
LB_down(t, tau0, node) ==
    IF t.kids[node] = <<>>
    THEN node :> (IF t.abund[node] > 1 THEN Clones(t.abund[node], tau0) ELSE IntZero)
    ELSE [k \in {node} \cup SeqRange(t.kids[node]) |->
             IF k = node THEN Clones(t.abund[node], tau0)
             ELSE DyAdd(Integral(t.dist[k]), Decay(t.dist[k], DownTotal(t, tau0, k)))]
DownTotal(t, tau0, node) ==
    LET down == LB_down(t, tau0, node) IN DySum(down, DOMAIN down)

\* Lines 899-913: node.LB_up
RECURSIVE LB_up(_, _, _, _)
LB_up(t, tau0, infinite_root_branch, node) ==
    IF t.up[node] = 0
    THEN IF infinite_root_branch THEN Tau ELSE IntZero
    ELSE LET down == LB_down(t, tau0, t.up[node])
             siblings == DySum(down, DOMAIN down \ {node})
         IN DyAdd(Integral(t.dist[node]),
                  Decay(t.dist[node],
                        DyAdd(LB_up(t, tau0, infinite_root_branch, t.up[node]), siblings)))

\* Line 919: the ratio below / above, as Python and numpy divide
Ratio(below, above) ==
    IF above.n # 0 THEN [kind |-> "ratio", num |-> below, den |-> above]
    ELSE IF ~below.np /\ ~above.np THEN [kind |-> "ZeroDivisionError"]
    ELSE IF below.n = 0 THEN [kind |-> "nan"]
    ELSE [kind |-> "inf"]

\* Lines 866-923; the last loop visits the root first, and only the division
\* at the root can raise.
local_branching(t, tau0, infinite_root_branch, nan_root_lbr) ==
    LET down == [x \in t.nodes |-> LB_down(t, tau0, x)]
        up == [x \in t.nodes |-> LB_up(t, tau0, infinite_root_branch, x)]
        total == [x \in t.nodes |-> DySum(down[x], DOMAIN down[x])]
        lbr == [x \in t.nodes |-> Ratio(total[x], up[x])]
        raises == lbr[1].kind = "ZeroDivisionError"
        done == IF raises THEN {1} ELSE t.nodes
    IN [raised |-> IF raises THEN "ZeroDivisionError" ELSE "none",
        LB_down |-> down,
        LB_up |-> up,
        LBI |-> [x \in done |-> DyAdd(total[x], up[x])],
        LBR |-> [x \in done \ (IF raises THEN {1} ELSE {}) |->
                    IF x = 1 /\ nan_root_lbr THEN [kind |-> "nan"] ELSE lbr[x]]]

\* ct.local_branching(tau0=..., infinite_root_branch=..., nan_root_lbr=...)
LocalBranching ==
    /\ phase = "built"
    /\ ct.status = "ok"
    /\ lb = <<>>
    /\ \E tau0 \in {1, 2}, infinite_root_branch \in BOOLEAN, nan_root_lbr \in BOOLEAN :
          lb' = [tau0 |-> tau0, infinite_root_branch |-> infinite_root_branch,
                 nan_root_lbr |-> nan_root_lbr]
                @@ local_branching(ct.tree, tau0, infinite_root_branch, nan_root_lbr)
    /\ UNCHANGED outside_branching

NextBranching == Construct \/ LocalBranching

SpecBranching == InitCollapse /\ [][NextBranching]_vars

\* --------------------------------------------------- properties of trees
\* A construction has been attempted / has returned a tree.
Built == phase \in {"built", "rebuilt", "ll"}
BuiltOk == Built /\ ct.status = "ok"

\* (abundance, number of children) of node x
NodeCM(t, x) == <<t.abund[x], Len(t.kids[x])>>

\* The pair the summary is to hold for node x: the root's (0, 1) counts as (1, 1).
SummaryPair(t, x) ==
    IF x = 1 /\ NodeCM(t, 1) = <<0, 1>> THEN <<1, 1>> ELSE NodeCM(t, x)

RECURSIVE NodeSum(_, _, _, _)
\* The sum over the nodes in S of the kernel at each node's pair.
NodeSum(t, S, p, q) ==
    IF S = {} THEN Result(1, 0, 0)
    ELSE LET x == CHOOSE y \in S : TRUE
             rest == NodeSum(t, S \ {x}, p, q)
             v == kernel[<<p, q>>][SummaryPair(t, x)]
         IN Result(Mul(rest.logf, v.logf),
                   Add(rest.dlogfdp, v.dlogfdp),
                   Add(rest.dlogfdq, v.dlogfdq))

\* C5: the CM summary holds every node's (abundance, number of children) once,
\* the root's pair being replaced by (1, 1) exactly when it is (0, 1); the
\* likelihood is the sum of the kernel over the nodes with that replacement,
\* and a root pair (0, 1) is no zero-likelihood event.
C5_CMSummary ==
    BuiltOk =>
        LET t == ct.tree
            cm == ct.cm_counts
        IN /\ \A i, j \in 1..Len(cm) : cm[i][1] = cm[j][1] => i = j
           /\ \A i \in 1..Len(cm) :
                 /\ cm[i][2] > 0
                 /\ cm[i][2] = Cardinality({x \in t.nodes : SummaryPair(t, x) = cm[i][1]})
           /\ \A x \in t.nodes : \E i \in 1..Len(cm) : cm[i][1] = SummaryPair(t, x)
           /\ phase = "ll" =>
                 IF \E x \in t.nodes : SummaryPair(t, x) \in ZeroCells
                 THEN llres.res.kind = "error"
                 ELSE /\ llres.res.kind = "value"
                      /\ llres.res.val = NodeSum(t, t.nodes, llres.p, llres.q)

\* C5 witness: ll returned a value for a tree whose root is an unobserved
\* unifurcation and whose summary counts some pair twice.
C5_Witness ==
    /\ phase = "ll"
    /\ ct.status = "ok"
    /\ NodeCM(ct.tree, 1) = <<0, 1>>
    /\ llres.res.kind = "value"
    /\ \E i \in 1..Len(ct.cm_counts) : ct.cm_counts[i][2] > 1

\* The names of the nodes with a positive abundance, and of the root.
ObservedNames(t) == {t.name[x] : x \in {y \in t.nodes : t.abund[y] > 0 \/ y = 1}}

\* C6: a construction that returns has kept the set of observed names of its
\* input; when the collapse changes that set the constructor raises
\* RuntimeError and leaves no tree.
C6_ObservedNamesPreserved ==
    Built =>
        /\ ct.status = "ok" => ObservedNames(ct.tree) = ObservedNames(itree)
        /\ (~NodeUnbound(itree) /\ ObservedNames(AfterCollapse(itree)) # ObservedNames(itree))
              => (ct.status = "RuntimeError" /\ ct.tree = NoTree)

\* C6 witness: a construction returned after the collapse had merged a node
\* away, the input having several observed names.
C6_Witness ==
    /\ phase = "built"
    /\ ct.status = "ok"
    /\ ct.tree.nodes # itree.nodes
    /\ Cardinality(ObservedNames(itree)) > 1

\* C7: collapsing a collapsed tree succeeds and gives a tree with the same
\* (sequence, abundance, parent sequence) triples.
C7_CollapseIdempotent ==
    phase = "rebuilt" =>
        /\ ct2.status = "ok"
        /\ compare(ct.tree, ct2.tree) = [raised |-> "none", same |-> TRUE]

\* Two distinct nodes of t among S have one sequence.
SharedSequence(t, S) == \E x, y \in S : x # y /\ t.seq[x] = t.seq[y]

\* C8 as stated: with allow_repeats False a constructed tree has no two
\* distinct nodes of one sequence.
C8_NoSharedSequence ==
    (BuiltOk /\ ~allow) => ~SharedSequence(ct.tree, ct.tree.nodes)

\* The nodes with a positive abundance
Observed(t) == {x \in t.nodes : t.abund[x] > 0}

\* C8 amended: with allow_repeats False a constructed tree has no two distinct
\* nodes of positive abundance with one sequence, and an input whose collapse
\* leaves two such nodes is rejected with RuntimeError.
C8_NoSharedObservedSequence ==
    (Built /\ ~allow) =>
        /\ ct.status = "ok" => ~SharedSequence(ct.tree, Observed(ct.tree))
        /\ (~NodeUnbound(itree)
            /\ SharedSequence(AfterCollapse(itree), Observed(AfterCollapse(itree))))
              => (ct.status = "RuntimeError" /\ ct.tree = NoTree)

\* C8 witness: with allow_repeats False a tree was returned in which an
\* unobserved node has the sequence of another node, next to two observed nodes.
C8_Witness ==
    /\ phase = "built"
    /\ ~allow
    /\ ct.status = "ok"
    /\ Cardinality(Observed(ct.tree)) > 1
    /\ SharedSequence(ct.tree, ct.tree.nodes)

\* C9: a lone root of abundance 1 is constructed, its CM summary is
\* {((1, 0), 1)} and its log-likelihood is log(1 - p).
C9_SingleNode ==
    (Built /\ itree.nodes = {1} /\ itree.abund[1] = 1) =>
        /\ ct.status = "ok"
        /\ ct.cm_counts = << <<<<1, 0>>, 1>> >>
        /\ phase = "ll" =>
              /\ llres.res.kind = "value"
              /\ llres.res.val.logf = Sub(1, Real(llres.p))

\* C10: the chain root - A - B of one sequence, with abundances 2, 0 and 3
\* and three names, collapses to a single node of abundance 3 whose name holds
\* the three names.
C10_ChainCollapses ==
    (/\ Built
     /\ itree.nodes = {1, 2, 3}
     /\ itree.up = <<0, 1, 2>>
     /\ itree.abund = <<2, 0, 3>>
     /\ itree.seq[1] = itree.seq[2]
     /\ itree.seq[2] = itree.seq[3]) =>
        /\ ct.status = "ok"
        /\ ct.tree.nodes = {1}
        /\ ct.tree.abund[1] = 3
        /\ ct.tree.name[1].ids = {NodeNames[1], NodeNames[2], NodeNames[3]}

\* C21: in a constructed tree the root's distance is 0 and every other node
\* differs in sequence from its parent, its distance being their Hamming
\* distance, at least 1.
C21_NoZeroLengthEdge ==
    BuiltOk =>
        LET t == ct.tree
        IN /\ t.dist[1] = 0
           /\ \A x \in t.nodes \ {1} :
                 /\ t.seq[x] # t.seq[t.up[x]]
                 /\ t.dist[x] = hamming_distance(t.seq[x], t.seq[t.up[x]])
                 /\ t.dist[x] >= 1

\* C21 witness: a tree constructed from an input in which a node below the
\* root and a child of that node both had the sequence of their parent, and
\* that still has a node below the root.
C21_Witness ==
    /\ BuiltOk
    /\ \E x, y \in itree.nodes :
          /\ itree.up[x] # 0
          /\ itree.up[y] = x
          /\ itree.seq[x] = itree.seq[itree.up[x]]
          /\ itree.seq[y] = itree.seq[x]
    /\ Cardinality(ct.tree.nodes) >= 2

\* A node of t below the root with abundance 0 and exactly one child
UnobservedUnifurcation(t, x) == x # 1 /\ t.abund[x] = 0 /\ Len(t.kids[x]) = 1

\* C22: a constructed tree has no non-root node of abundance 0 with exactly
\* one child.
C22_NoUnobservedUnifurcation ==
    BuiltOk => \A x \in ct.tree.nodes : ~UnobservedUnifurcation(ct.tree, x)

\* ================================================================= forests
\* CollapsedForest.filter_trees on a small history DAG.  A history DAG is a
\* map from node to its clades; a clade is the list of its alternative target
\* nodes.  Node 1 is the universal-ancestor root.  A node without clades stands
\* for a subtree with a single history, whose weight is folded into the edge
\* above it.  Output files and printing are left out.

\* The Decimal state of a log-likelihood is counted in quanta; one unit of the
\* exposed, rounded float is Quanta quanta.
Quanta == 2
MaxCoeffs == 4

\* round(res, 8) of a Decimal: to the nearest unit, ties to the even one
Round8(res) ==
    LET fl == res \div Quanta
        r == res % Quanta
    IN IF 2 * r < Quanta THEN fl
       ELSE IF 2 * r > Quanta THEN fl + 1
       ELSE IF fl % 2 = 0 THEN fl ELSE fl + 1

\* The weight of an edge under (_ll_genotype_dagfuncs, _isotype_dagfuncs,
\* _mutability_dagfuncs, _allele_dagfuncs): ll is the Decimal state.
EdgeWeights ==
    { [ll |-> -2, iso |-> 0, mut |-> 0, al |-> 0],
      [ll |-> -2, iso |-> 0, mut |-> 0, al |-> 1],
      [ll |-> -1, iso |-> 0, mut |-> 1, al |-> 1],
      [ll |-> 0, iso |-> 1, mut |-> 0, al |-> 1] }

DagShapes ==
    { << << <<2>> >>, << <<3>> >>, <<>> >>,
      << << <<2>> >>, << <<3, 4>> >>, <<>>, <<>> >>,
      << << <<2, 3>> >>, << <<4>> >>, << <<4>> >>, <<>> >>,
      << << <<2>> >>, << <<3, 4>>, <<5>> >>, <<>>, <<>>, <<>> >>,
      << << <<2, 3>> >>, << <<4, 5>> >>, << <<4>> >>, <<>>, <<>> >> }

Edges(clades) ==
    {e \in (DOMAIN clades) \X (DOMAIN clades) :
        \E k \in DOMAIN clades[e[1]] : e[2] \in SeqRange(clades[e[1]][k])}

\* start_func of the four algebras
StartWeight == [ll |-> 0, iso |-> 0, mut |-> 0, al |-> 0]

\* accum_func of the summed AddFuncDict on two weights: the Decimal states and
\* the integer scores add
AccumFunc(w1, w2) ==
    [ll |-> w1.ll + w2.ll, iso |-> w1.iso + w2.iso,
     mut |-> w1.mut + w2.mut, al |-> w1.al + w2.al]

RECURSIVE AccumAll(_)
AccumAll(weightlist) ==
    IF weightlist = <<>> THEN StartWeight
    ELSE AccumFunc(Head(weightlist), AccumAll(Tail(weightlist)))

\* The weight tuple as comparisons, hashing and keys see it: a FloatState
\* compares as its rounded float.
WeightTuple(w) == <<Round8(w.ll), w.iso, w.mut, w.al>>

\* placeholder_dagfuncs replaces an algebra that is not used (lines 1166-1201)
EdgeWeightFunc(dag, funcs, n1, n2) ==
    LET w == dag.weight[<<n1, n2>>]
    IN [ll |-> w.ll,
        iso |-> IF funcs.iso THEN w.iso ELSE 0,
        mut |-> IF funcs.mut THEN w.mut ELSE 0,
        al |-> w.al]

\* Python's truth value of the ranking_coeffs argument
Truthy(ranking_coeffs) == ranking_coeffs.given /\ Len(ranking_coeffs.seq) > 0

\* sum(priority * float(weight) for priority, weight in zip(coeffs, weighttuple))
RECURSIVE ZipSum(_, _)
ZipSum(coeffs, weighttuple) ==
    IF coeffs = <<>> \/ weighttuple = <<>> THEN 0
    ELSE Head(coeffs) * Head(weighttuple) + ZipSum(Tail(coeffs), Tail(weighttuple))

\* minfunckey of filter_trees; a linear score is held as a 1-tuple
minfunckey(ranking_coeffs, weighttuple) ==
    IF Truthy(ranking_coeffs)
    THEN << ZipSum(<<-1>> \o ranking_coeffs.seq, weighttuple) >>
    ELSE << -weighttuple[1] >> \o SubSeq(weighttuple, 2, Len(weighttuple) - 1)

\* Python's < on tuples of numbers
RECURSIVE TupleLess(_, _)
TupleLess(a, b) ==
    IF a = <<>> THEN b # <<>>
    ELSE IF b = <<>> THEN FALSE
    ELSE IF Head(a) # Head(b) THEN Head(a) < Head(b)
    ELSE TupleLess(Tail(a), Tail(b))

\* Python's min(l, key=...): the scan keeps the first weight of the least key
RECURSIVE MinFrom(_, _, _)
MinFrom(ranking_coeffs, best, rest) ==
    IF rest = <<>> THEN best
    ELSE IF TupleLess(minfunckey(ranking_coeffs, WeightTuple(Head(rest))),
                      minfunckey(ranking_coeffs, WeightTuple(best)))
         THEN MinFrom(ranking_coeffs, Head(rest), Tail(rest))
         ELSE MinFrom(ranking_coeffs, best, Tail(rest))

\* optimal_func: min(l, key=minfunckey)
OptimalFunc(ranking_coeffs, l) == MinFrom(ranking_coeffs, Head(l), Tail(l))

\* The accumulated weights of a clade's targets:
\* [accum_func([target._dp_data, edge_weight_func(node, target)]) for target in targets]
RECURSIVE WeightList(_, _, _, _, _)
WeightList(dag, funcs, dp, n, targets) ==
    IF targets = <<>> THEN <<>>
    ELSE << AccumFunc(dp[Head(targets)], EdgeWeightFunc(dag, funcs, n, Head(targets))) >>
         \o WeightList(dag, funcs, dp, n, Tail(targets))

RECURSIVE OptimalOfClades(_, _, _, _, _, _)
OptimalOfClades(dag, funcs, ranking_coeffs, dp, n, clades) ==
    IF clades = <<>> THEN <<>>
    ELSE << OptimalFunc(ranking_coeffs, WeightList(dag, funcs, dp, n, Head(clades))) >>
         \o OptimalOfClades(dag, funcs, ranking_coeffs, dp, n, Tail(clades))

\* HistoryDag.optimal_weight_annotate: the _dp_data of every node, in
\* postorder.  Nodes are numbered parents first, so the targets of node n are
\* annotated before it.
RECURSIVE Annotate(_, _, _, _, _)
Annotate(dag, funcs, ranking_coeffs, n, dp) ==
    IF n = 0 THEN dp
    ELSE LET data == IF dag.clades[n] = <<>> THEN StartWeight
                     ELSE AccumAll(OptimalOfClades(dag, funcs, ranking_coeffs, dp, n,
                                                   dag.clades[n]))
         IN Annotate(dag, funcs, ranking_coeffs, n - 1, Store(dp, n, data))

optimal_weight_annotate(dag, funcs, ranking_coeffs) ==
    Annotate(dag, funcs, ranking_coeffs, Len(dag.clades), EmptyMap)

\* Variant: the trim keeps every target of every clade.
KeptTargets_All(targets, weightlist, optimalweight) == targets

\* The targets of a clade whose accumulated weight eq_func finds equal to the
\* optimal one (the default eq_func: w1 == w2)
RECURSIVE KeptTargets(_, _, _)
KeptTargets(targets, weightlist, optimalweight) ==
    IF targets = <<>> THEN <<>>
    ELSE (IF WeightTuple(Head(weightlist)) = WeightTuple(optimalweight)
          THEN <<Head(targets)>> ELSE <<>>)
         \o KeptTargets(Tail(targets), Tail(weightlist), optimalweight)

RECURSIVE TrimClades(_, _, _, _, _, _)
TrimClades(dag, funcs, ranking_coeffs, dp, n, clades) ==
    IF clades = <<>> THEN <<>>
    ELSE LET weightlist == WeightList(dag, funcs, dp, n, Head(clades))
         IN << KeptTargets(Head(clades), weightlist, OptimalFunc(ranking_coeffs, weightlist)) >>
            \o TrimClades(dag, funcs, ranking_coeffs, dp, n, Tail(clades))

RECURSIVE TrimNodes(_, _, _, _, _)
TrimNodes(dag, funcs, ranking_coeffs, dp, n) ==
    IF n > Len(dag.clades) THEN <<>>
    ELSE << TrimClades(dag, funcs, ranking_coeffs, dp, n, dag.clades[n]) >>
         \o TrimNodes(dag, funcs, ranking_coeffs, dp, n + 1)

\* HistoryDag.trim_optimal_weight: annotate, then in every clade of every node
\* keep the targets of optimal accumulated weight
trim_optimal_weight(dag, funcs, ranking_coeffs) ==
    LET dp == optimal_weight_annotate(dag, funcs, ranking_coeffs)
    IN [dag EXCEPT !.clades = TrimNodes(dag, funcs, ranking_coeffs, dp, 1),
                   !.dp = "trim_optimal_weight"]

\* The histories below node n, each the set of its edges
RECURSIVE SubHistories(_, _), CladeProduct(_, _, _)
SubHistories(clades, n) == CladeProduct(clades, n, Len(clades[n]))
CladeProduct(clades, n, k) ==
    IF k = 0 THEN {{}}
    ELSE LET below == UNION {{ {<<n, t>>} \cup h : h \in SubHistories(clades, t)} :
                                t \in SeqRange(clades[n][k])}
         IN {h1 \cup h2 : h1 \in CladeProduct(clades, n, k - 1), h2 \in below}

Histories(dag) == SubHistories(dag.clades, 1)

\* HistoryDag.count_trees
count_trees(dag) == Cardinality(Histories(dag))

\* The weight of one history: the accumulation of its edge weights
RECURSIVE HistoryWeight(_, _, _)
HistoryWeight(dag, funcs, h) ==
    IF h = {} THEN StartWeight
    ELSE LET e == CHOOSE x \in h : TRUE
         IN AccumFunc(EdgeWeightFunc(dag, funcs, e[1], e[2]),
                      HistoryWeight(dag, funcs, h \ {e}))

\* The keys of HistoryDag.weight_count: the weight tuples of the histories
weight_count(dag, funcs) ==
    {WeightTuple(HistoryWeight(dag, funcs, h)) : h \in Histories(dag)}

\* ------------------------------------------------------------ filter_trees
\* The ranking_coeffs arguments tried: None, or a sequence of at most
\* MaxCoeffs coefficients (all 1 unless of length 3).
CoeffSeqs ==
    UNION {{s \in [1..n -> {0, 1}] : n = 3 \/ \A i \in 1..n : s[i] = 1} : n \in 0..MaxCoeffs}

RankingCoeffs ==
    {[given |-> FALSE, seq |-> <<>>]} \cup {[given |-> TRUE, seq |-> s] : s \in CoeffSeqs}

\* self._forest is None
NoDag == 0

\* self._ctrees: None, or the list of the simulated trees
NoTrees == [given |-> FALSE, trees |-> <<>>]

\* CollapsedForest(): the forest made without trees
CollapsedForest ==
    [dag |-> NoDag, n_trees |-> 0, validation_stats |-> "None",
     cm_countlist |-> "None", ctrees |-> NoTrees,
     parameters |-> "None", is_isotyped |-> FALSE]

\* CollapsedForest(forest) on a non-empty list of trees whose DAG is the object
\* dag_id
CollapsedForestOf(dag_id, dag) ==
    [CollapsedForest EXCEPT !.dag = dag_id, !.n_trees = count_trees(dag),
                           !.validation_stats = "stats"]

\* CollapsedForest._trimmed_self(dag): a new forest on the given DAG object,
\* with a copy of the validation record
trimmed_self(self, dag_id, dag) ==
    [CollapsedForest EXCEPT !.validation_stats = self.validation_stats,
                           !.n_trees = count_trees(dag),
                           !.dag = dag_id,
                           !.parameters = self.parameters]

\* The body of filter_trees up to its return or raise, on the forest object
\* self and its DAG object: what is raised, what self.parameters has become,
\* the trimmed copy and the best weight tuple.
filter_trees(self, dag, ranking_coeffs, ignore_isotype, mutability) ==
    LET parameters == IF self.parameters = "None" THEN "mle" ELSE self.parameters
        funcs == [iso |-> ~(ignore_isotype \/ ~self.is_isotyped), mut |-> mutability]
        trimdag == trim_optimal_weight(dag, funcs, ranking_coeffs)
        min_weightset == {minfunckey(ranking_coeffs, key) : key \in weight_count(trimdag, funcs)}
        best_weighttuple == WeightTuple(optimal_weight_annotate(trimdag, funcs, ranking_coeffs)[1])
        nothing == [parameters |-> parameters, funcs |-> funcs, trimdag |-> <<>>,
                    best_weighttuple |-> <<>>]
    IN IF Truthy(ranking_coeffs) /\ Len(ranking_coeffs.seq) # 3
       THEN [raised |-> "ValueError"] @@ nothing
       ELSE IF Cardinality(min_weightset) # 1
       THEN [raised |-> "RuntimeError", trimdag |-> [trimdag EXCEPT !.dp = "weight_count"]]
            @@ nothing
       ELSE [raised |-> "none", parameters |-> parameters, funcs |-> funcs,
             trimdag |-> [trimdag EXCEPT !.dp = "optimal_weight_annotate"],
             best_weighttuple |-> best_weighttuple]

NoCall == <<>>

InitForest ==
    /\ lru = EmptyMap
    /\ max_ll_cache = EmptyMap
    /\ stack = <<>>
    /\ job = Idle
    /\ outcome = NoOutcome
    /\ hist = [maxc |-> 0, maxm |-> 0, clean |-> TRUE, cleared |-> FALSE]
    /\ phase = "forest"
    /\ itree = <<>>
    /\ allow = FALSE
    /\ ct = <<>>
    /\ ct2 = <<>>
    /\ llres = <<>>
    /\ kernel = <<>>
    /\ NoSupport
    /\ NoIsotype
    /\ NoHistory
    /\ NoBranching
    /\ NoSimulation
    /\ \E clades \in DagShapes :
          \E weight \in [Edges(clades) -> EdgeWeights] :
              LET dag == [clades |-> clades, weight |-> weight, dp |-> "count_trees"]
              IN /\ dags = <<dag>>
                 /\ \E fitted \in BOOLEAN :
                       forests = << [CollapsedForestOf(1, dag) EXCEPT
                                        !.parameters = IF fitted THEN "fit" ELSE "None",
                                        !.is_isotyped = fitted] >>
    /\ call = NoCall

\* Variant: simulate leaves the history DAG in place.
simulate_KeepsForest(self, n_trees, valid) ==
    [self EXCEPT !.ctrees = [given |-> TRUE, trees |-> [i \in 1..n_trees |-> "CollapsedTree"]],
                 !.n_trees = n_trees,
                 !.cm_countlist = IF ~valid /\ n_trees >= 1 THEN @ ELSE "counted"]

\* CollapsedForest.simulate(p, q, n_trees) on the forest object self: the
\* attributes when it returns, or when the first tree.simulate(p, q) raises
\* on invalid p, q.
simulate(self, n_trees, valid) ==
    [self EXCEPT !.dag = NoDag,
                 !.ctrees = [given |-> TRUE, trees |-> [i \in 1..n_trees |-> "CollapsedTree"]],
                 !.n_trees = n_trees,
                 !.cm_countlist = IF ~valid /\ n_trees >= 1 THEN @ ELSE "counted"]

\* The wrapper of _requires_dag, before the wrapped method is called
requires_dag(self) ==
    IF self.dag = NoDag THEN "NotImplementedError" ELSE "none"

\* Variant: the trim works on the forest's own DAG object.
CopyDag_Alias(heap, id) == [heap |-> heap, id |-> id]

\* dag.copy(): a new DAG object with the content of the given one
CopyDag(heap, id) == [heap |-> Append(heap, heap[id]), id |-> Len(heap) + 1]

\* forest.filter_trees(ranking_coeffs=..., mutability_file=..., substitution_file=...,
\* tree_stats=...) on the forest object self; ignore_isotype keeps its default.
\* After a RuntimeError the trimmed copy is left unreferenced.
FilterTrees(self) ==
    /\ call = NoCall
    /\ requires_dag(forests[self]) = "none"
    /\ \E ranking_coeffs \in RankingCoeffs, mutability \in BOOLEAN, tree_stats \in BOOLEAN :
       \E dag \in {dags[forests[self].dag]} :
       \E r \in {filter_trees(forests[self], dag, ranking_coeffs, FALSE, mutability)} :
       \E c \in {CopyDag(dags, forests[self].dag)} :
          LET kept == [forests EXCEPT ![self].parameters = r.parameters]
              trimmed == IF r.raised = "ValueError" THEN dags
                         ELSE [c.heap EXCEPT ![c.id] = r.trimdag]
              annotated == IF r.raised = "none" /\ tree_stats
                           THEN [trimmed EXCEPT ![forests[self].dag].dp = "optimal_weight_annotate"]
                           ELSE trimmed
              counted == IF r.raised = "none"
                         THEN [annotated EXCEPT ![c.id].dp = "count_trees"]
                         ELSE annotated
          IN /\ call' = [method |-> "filter_trees",
                         self |-> self, ranking_coeffs |-> ranking_coeffs,
                         funcs |-> r.funcs, tree_stats |-> tree_stats,
                         histories |-> Histories(dag), n_trees |-> forests[self].n_trees,
                         raised |-> r.raised,
                         returned |-> IF r.raised = "none" THEN Len(forests) + 1 ELSE 0,
                         best_weighttuple |-> r.best_weighttuple]
             /\ dags' = counted
             /\ forests' = IF r.raised = "none"
                           THEN Append(kept, trimmed_self(kept[self], c.id, counted[c.id]))
                           ELSE kept
    /\ UNCHANGED outside_forest

NextForest == \E self \in DOMAIN forests : FilterTrees(self)

SpecForest == InitForest /\ [][NextForest]_vars

\* ------------------------------------------------- the DAG-only operations
\* The number of trees simulate() is asked for
MaxTrees == 2

\* A call of a method wrapped by _requires_dag on a forest without a DAG: the
\* wrapper raises and the method is not entered.
Refused(self, method) ==
    /\ call = NoCall
    /\ requires_dag(forests[self]) = "NotImplementedError"
    /\ call' = [method |-> method, self |-> self,
                raised |-> "NotImplementedError", returned |-> 0]
    /\ UNCHANGED <<dags, forests>>
    /\ UNCHANGED outside_forest

\* The nodes a history puts below node n, and the leaves it reaches from n
Targets(h, n) == {e[2] : e \in {x \in h : x[1] = n}}

RECURSIVE HistoryLeaves(_, _)
HistoryLeaves(h, n) ==
    IF Targets(h, n) = {} THEN {n}
    ELSE UNION {HistoryLeaves(h, t) : t \in Targets(h, n)}

\* The newick of a history without internal labels: its nested leaf sets
Topology(h) == {HistoryLeaves(h, e[2]) : e \in h}

\* HistoryDag.weight_count(**make_newickcountfuncs(internal_labels=False)):
\* the number of histories of each topology
TopologyCount(dag) ==
    [t \in {Topology(h) : h \in Histories(dag)} |->
        Cardinality({h \in Histories(dag) : Topology(h) = t})]

\* HistoryDag.count_topologies
count_topologies(dag) == Cardinality(DOMAIN TopologyCount(dag))

\* HistoryDag.trim_topology: only the edges of the histories of the given
\* topology are kept
trim_topology(dag, ctopology) ==
    LET kept == UNION {h \in Histories(dag) : Topology(h) = ctopology}
    IN [dag EXCEPT !.clades =
                      [n \in DOMAIN dag.clades |->
                          [k \in DOMAIN dag.clades[n] |->
                              SelectSeq(dag.clades[n][k], LAMBDA t : <<n, t>> \in kept)]],
                   !.dp = "trim_topology"]

\* ctopologies after the sort by -count: the topologies in an order in which
\* the counts never increase
SortedTopologies(counts) ==
    {order \in [1..Cardinality(DOMAIN counts) -> DOMAIN counts] :
        /\ \A i, j \in DOMAIN order : i # j => order[i] # order[j]
        /\ \A i, j \in DOMAIN order : i < j => counts[order[i]] >= counts[order[j]]}

\* The loop of iter_topology_classes run to its end: for every topology, a
\* trimmed copy of the DAG and the forest _trimmed_self makes of it
RECURSIVE YieldClasses(_, _, _, _)
YieldClasses(heap, made, self, order) ==
    IF order = <<>> THEN [heap |-> heap, made |-> made]
    ELSE LET c == CopyDag(heap, self.dag)
             tdag == [trim_topology(c.heap[c.id], Head(order)) EXCEPT !.dp = "count_trees"]
         IN YieldClasses([c.heap EXCEPT ![c.id] = tdag],
                         Append(made, trimmed_self(self, c.id, tdag)),
                         self, Tail(order))

\* forest.simulate(p, q, n_trees)
Simulate(self) ==
    /\ call = NoCall
    /\ \E n_trees \in 0..MaxTrees, valid \in BOOLEAN :
          forests' = [forests EXCEPT ![self] = simulate(@, n_trees, valid)]
    /\ UNCHANGED <<dags, call>>
    /\ UNCHANGED outside_forest

\* forest.filter_trees(...) through the wrapper
FilterTreesWrapped(self) ==
    \/ Refused(self, "filter_trees")
    \/ FilterTrees(self)

\* forest.n_topologies()
NTopologies(self) ==
    \/ Refused(self, "n_topologies")
    \/ /\ call = NoCall
       /\ requires_dag(forests[self]) = "none"
       /\ call' = [method |-> "n_topologies", self |-> self, raised |-> "none",
                   returned |-> count_topologies(dags[forests[self].dag])]
       /\ dags' = [dags EXCEPT ![forests[self].dag].dp = "weight_count"]
       /\ UNCHANGED forests
       /\ UNCHANGED outside_forest

\* list(forest.iter_topology_classes())
IterTopologyClasses(self) ==
    \/ Refused(self, "iter_topology_classes")
    \/ /\ call = NoCall
       /\ requires_dag(forests[self]) = "none"
       /\ \E order \in SortedTopologies(TopologyCount(dags[forests[self].dag])) :
          \E r \in {YieldClasses([dags EXCEPT ![forests[self].dag].dp = "weight_count"],
                                  forests, forests[self], order)} :
             /\ dags' = r.heap
             /\ forests' = r.made
             /\ call' = [method |-> "iter_topology_classes", self |-> self,
                         raised |-> "none", returned |-> 0,
                         yielded |-> [i \in DOMAIN order |-> Len(forests) + i]]
       /\ UNCHANGED outside_forest

\* forest.add_isotypes(...): the isotypes of the nodes are those the edge
\* weights of the DAG already count
AddIsotypes(self) ==
    \/ Refused(self, "add_isotypes")
    \/ /\ call = NoCall
       /\ requires_dag(forests[self]) = "none"
       /\ forests' = [forests EXCEPT ![self].is_isotyped = TRUE]
       /\ dags' = [dags EXCEPT ![forests[self].dag].dp = "optimal_weight_annotate"]
       /\ call' = [method |-> "add_isotypes", self |-> self, raised |-> "none",
                   returned |-> 0]
       /\ UNCHANGED outside_forest

\* A forest made from trees, all edges of its DAG of one weight, or a forest
\* made without trees
InitDagOnly ==
    /\ lru = EmptyMap
    /\ max_ll_cache = EmptyMap
    /\ stack = <<>>
    /\ job = Idle
    /\ outcome = NoOutcome
    /\ hist = [maxc |-> 0, maxm |-> 0, clean |-> TRUE, cleared |-> FALSE]
    /\ phase = "dag_only"
    /\ itree = <<>>
    /\ allow = FALSE
    /\ ct = <<>>
    /\ ct2 = <<>>
    /\ llres = <<>>
    /\ kernel = <<>>
    /\ NoSupport
    /\ NoIsotype
    /\ NoHistory
    /\ NoBranching
    /\ NoSimulation
    /\ call = NoCall
    /\ \/ /\ dags = <<>>
          /\ forests = <<CollapsedForest>>
       \/ \E clades \in DagShapes, w \in EdgeWeights :
             LET dag == [clades |-> clades, weight |-> [e \in Edges(clades) |-> w],
                         dp |-> "count_trees"]
             IN /\ dags = <<dag>>
                /\ forests = <<CollapsedForestOf(1, dag)>>

NextDagOnly ==
    \E self \in DOMAIN forests :
        \/ Simulate(self)
        \/ FilterTreesWrapped(self)
        \/ NTopologies(self)
        \/ IterTopologyClasses(self)
        \/ AddIsotypes(self)

SpecDagOnly == InitDagOnly /\ [][NextDagOnly]_vars


\* ============================================================ isotype tool
MaxFiles == 2

\* Python values held in the rows of tree_stats
PyStr(s) == [type |-> "str", v |-> s]
PyFloat(x) == [type |-> "float", v |-> x]
PyInt(n) == [type |-> "int", v |-> n]
PyObject(id) == [type |-> "CollapsedTree", v |-> id]

\* value.tree: only a CollapsedTree object has the attribute
HasTree(value) == value.type = "CollapsedTree"

\* The pickled CollapsedTree objects: ll is tree.ll(p, q)[0] at the log's
\* parameters, nodes the size of tree.tree, observed the number of nodes that
\* carry more than one observed isotype.
PickledTrees == [ll : {-2, -1}, nodes : 1..MaxNodes, observed : {0, 1}]

\* isotype_tree(tree, newidmap, isotype_names): the tree with one node added
\* for each further observed isotype of a node
isotype_tree(tree) == [tree EXCEPT !.nodes = @ + tree.observed]

\* isotype_parsimony(tree): the number of isotype switches along the edges
isotype_parsimony(tree) == tree.observed

\* sum(1 for _ in tree.traverse())
NumNodes(tree) == tree.nodes

\* sorted(xs, key=...): stable, ascending; key maps each element to its key
RECURSIVE InsertByKey(_, _, _)
InsertByKey(srt, x, key) ==
    IF srt = <<>> THEN <<x>>
    ELSE IF key[x] < key[Head(srt)] THEN <<x>> \o srt
    ELSE <<Head(srt)>> \o InsertByKey(Tail(srt), x, key)

RECURSIVE SortedFrom(_, _, _)
SortedFrom(xs, key, srt) ==
    IF xs = <<>> THEN srt
    ELSE SortedFrom(Tail(xs), key, InsertByKey(srt, Head(xs), key))

sorted(xs, key) == SortedFrom(xs, key, <<>>)

Indices(n) == [i \in 1..n |-> i]

\* The position of x in the sequence xs of distinct elements
IndexOf(xs, x) == CHOOSE i \in DOMAIN xs : xs[i] = x

\* ctrees: the unpickled objects (by identity, in the order of args.trees)
\* sorted by decreasing log likelihood
RankedTrees(loaded) == sorted(Indices(Len(loaded)), [i \in DOMAIN loaded |-> 0 - loaded[i].ll])

\* tree_stats: zip(args.trees, enumerate(ctrees)) pairs the k-th file name
\* with the k-th ranked tree
TreeStats(names, loaded, ctrees) ==
    [k \in DOMAIN ctrees |->
        << PyStr(names[k]), PyObject(ctrees[k]), PyFloat(loaded[ctrees[k]].ll), PyInt(k - 1),
           PyInt(NumNodes(loaded[ctrees[k]].tree)) >>]

\* for sublist in tree_stats: sublist.append(isotype_parsimony(sublist[0].tree))
WithParsimony(tree_stats, heap) ==
    IF \E k \in DOMAIN tree_stats : ~HasTree(tree_stats[k][1])
    THEN [raised |-> "AttributeError", rows |-> <<>>]
    ELSE [raised |-> "none",
          rows |-> [k \in DOMAIN tree_stats |->
                       Append(tree_stats[k],
                              PyInt(isotype_parsimony(heap[tree_stats[k][1].v].tree)))]]

\* for index, sublist in enumerate(sorted(tree_stats, key=lambda slist: slist[2])):
\*     sublist.append(index)
WithParsimonyIndex(rows) ==
    LET order == sorted(Indices(Len(rows)), [k \in DOMAIN rows |-> rows[k][3].v])
    IN [k \in DOMAIN rows |-> Append(rows[k], PyInt(IndexOf(order, k) - 1))]

\* The line printed for a row: likelihood_idx + 1, likelihood,
\* original_numnodes, parsimony and the size of ctree.tree now
ReportLine(row, heap) ==
    << row[4].v + 1, row[3].v, row[5].v, row[6].v, NumNodes(heap[row[2].v].tree) >>

\* main(arg_list) on the files fs, with --trees as given
main(fs, trees) ==
    IF ~fs.params THEN [raised |-> "RuntimeError", printed |-> <<>>]
    ELSE IF ~trees.given THEN [raised |-> "TypeError", printed |-> <<>>]
    ELSE
        LET loaded == [k \in DOMAIN trees.names |->
                          [ll |-> fs.trees[trees.names[k]].ll,
                           tree |-> [nodes |-> fs.trees[trees.names[k]].nodes,
                                     observed |-> fs.trees[trees.names[k]].observed]]]
            ctrees == RankedTrees(loaded)
            tree_stats == TreeStats(trees.names, loaded, ctrees)
            heap == [i \in DOMAIN loaded |-> [loaded[i] EXCEPT !.tree = isotype_tree(@)]]
            scored == WithParsimony(tree_stats, heap)
        IN IF scored.raised # "none" THEN [raised |-> scored.raised, printed |-> <<>>]
           ELSE LET rows == WithParsimonyIndex(scored.rows)
                IN [raised |-> "none",
                    printed |-> [k \in DOMAIN rows |-> ReportLine(rows[k], heap)]]

\* --trees is optional and takes one or more file names
TreesArgs(fs) ==
    {[given |-> FALSE, names |-> <<>>]}
        \cup {[given |-> TRUE, names |-> names] :
                 names \in UNION {[1..n -> DOMAIN fs.trees] : n \in 1..MaxFiles}}

NoRun == <<>>

InitIsotype ==
    /\ lru = EmptyMap
    /\ max_ll_cache = EmptyMap
    /\ stack = <<>>
    /\ job = Idle
    /\ outcome = NoOutcome
    /\ hist = [maxc |-> 0, maxm |-> 0, clean |-> TRUE, cleared |-> FALSE]
    /\ phase = "isotype"
    /\ itree = <<>>
    /\ allow = FALSE
    /\ ct = <<>>
    /\ ct2 = <<>>
    /\ llres = <<>>
    /\ kernel = <<>>
    /\ NoSupport
    /\ NoForests
    /\ \E params \in BOOLEAN :
          \E trees \in UNION {[1..n -> PickledTrees] : n \in 1..MaxFiles} :
              files = [params |-> params, trees |-> trees]
    /\ mainres = NoRun
    /\ NoHistory
    /\ NoBranching
    /\ NoSimulation

\* gctree isotype inference_log idmapfile isotype_mapfile [--trees ...]
Main ==
    /\ mainres = NoRun
    /\ \E trees \in TreesArgs(files) :
       \E r \in {main(files, trees)} :
          mainres' = [trees |-> trees, raised |-> r.raised, printed |-> r.printed]
    /\ UNCHANGED files
    /\ UNCHANGED outside_isotype

NextIsotype == Main

SpecIsotype == InitIsotype /\ [][NextIsotype]_vars

\* ============================================================== histories
\* A history of the forest's DAG as a labelled tree: node 1 is the tree root,
\* the target of the edge from the DAG's root node (written 0 here); a node's
\* label is (sequence, abundance), and its clades are the sets of leaf labels
\* below its children.
IsLeaf(h, x) == h.kids[x] = <<>>

Label(h, x) == <<h.seq[x], h.abund[x]>>

RECURSIVE LeafLabels(_, _)
LeafLabels(h, x) ==
    IF IsLeaf(h, x) THEN {Label(h, x)}
    ELSE UNION {LeafLabels(h, h.kids[x][i]) : i \in DOMAIN h.kids[x]}

Clades(h, x) == {LeafLabels(h, h.kids[x][i]) : i \in DOMAIN h.kids[x]}

\* What _make_dag leaves in every history: the root has its pseudo-leaf
\* (lines 1688-1691), the leaves have distinct labels, the abundance of an
\* internal node is that of a leaf child of its sequence and 0 when it has
\* none (lines 1759, 1801-1805, 1811-1815), and no edge joins two internal
\* nodes of one sequence (line 1806).
WellFormed(h) ==
    /\ \E i \in DOMAIN h.kids[1] :
          IsLeaf(h, h.kids[1][i]) /\ Label(h, h.kids[1][i]) = Label(h, 1)
    /\ \A x, y \in h.nodes : (IsLeaf(h, x) /\ IsLeaf(h, y) /\ x # y) => Label(h, x) # Label(h, y)
    /\ \A x \in h.nodes :
          ~IsLeaf(h, x) =>
             IF \E i \in DOMAIN h.kids[x] :
                   IsLeaf(h, h.kids[x][i]) /\ h.seq[h.kids[x][i]] = h.seq[x]
             THEN \E i \in DOMAIN h.kids[x] :
                     IsLeaf(h, h.kids[x][i]) /\ Label(h, h.kids[x][i]) = Label(h, x)
             ELSE h.abund[x] = 0
    /\ \A x \in h.nodes \ {1} : ~IsLeaf(h, x) => h.seq[x] # h.seq[h.up[x]]

\* n2.is_leaf() and n1.label.sequence == n2.label.sequence (lines 1832, 1887):
\* the edge to a leaf of its parent's sequence carries no weight.
LeafAdjacent(h, n1, n2) == IsLeaf(h, n2) /\ n1 # 0 /\ h.seq[n1] = h.seq[n2]

\* m = len(n2.clades), less one when frozenset({n2.label}) is a clade
\* (lines 1836-1838, 1890-1893)
MutantClades(h, n2) ==
    Cardinality(Clades(h, n2)) - (IF {Label(h, n2)} \in Clades(h, n2) THEN 1 ELSE 0)

\* _cmcounter_dagfuncs.edge_weight_func(n1, n2): a multiset, here the list
\* of its members
edge_weight_func(h, n1, n2) ==
    IF LeafAdjacent(h, n1, n2) THEN <<>>
    ELSE << <<h.abund[n2], MutantClades(h, n2)>> >>

\* Lines 1895-1897: the pseudocount for an unobserved root unifurcation
Pseudocount(n1, c, m) == IF n1 = 0 /\ c = 0 /\ m = 1 THEN 1 ELSE c

\* _ll_genotype_dagfuncs.edge_weight_ll_genotype(n1, n2): the (c, m) at which
\* it calls _ll_genotype, as a list
edge_weight_ll_genotype(h, n1, n2) ==
    IF LeafAdjacent(h, n1, n2) THEN <<>>
    ELSE << <<Pseudocount(n1, h.abund[n2], MutantClades(h, n2)), MutantClades(h, n2)>> >>

\* The multiset of the members of a list: member -> count
Multiset(list) ==
    [x \in SeqRange(list) |-> Cardinality({i \in DOMAIN list : list[i] = x})]

\* weight_count over the one history: the weights of its edges, the edge
\* from the DAG's root node included, accumulated
RECURSIVE CMEdges(_, _)
CMEdges(h, order) ==
    IF order = <<>> THEN <<>>
    ELSE edge_weight_func(h, h.up[Head(order)], Head(order)) \o CMEdges(h, Tail(order))

RECURSIVE LLEdges(_, _)
LLEdges(h, order) ==
    IF order = <<>> THEN <<>>
    ELSE edge_weight_ll_genotype(h, h.up[Head(order)], Head(order)) \o LLEdges(h, Tail(order))

\* mset - {(0, 1)} + {(1, 1)} when (0, 1) is in mset (lines 1050-1052)
to_tuple_Unchecked(mset) ==
    IF <<0, 1>> \in DOMAIN mset
    THEN [raised |-> "none",
          pairs |-> [x \in (DOMAIN mset \ {<<0, 1>>}) \cup {<<1, 1>>} |->
                        IF x = <<1, 1>>
                        THEN 1 + (IF x \in DOMAIN mset THEN mset[x] ELSE 0)
                        ELSE mset[x]]]
    ELSE [raised |-> "none", pairs |-> mset]

\* CollapsedForest.ll, to_tuple (lines 1047-1053): mset - {(0, 1)} + {(1, 1)}
\* when (0, 1) is in mset, after asserting that it is there once
to_tuple(mset) ==
    IF <<0, 1>> \in DOMAIN mset /\ mset[<<0, 1>>] # 1
    THEN [raised |-> "AssertionError", pairs |-> <<>>]
    ELSE to_tuple_Unchecked(mset)

NotRun == [raised |-> "notrun", pairs |-> <<>>]

InitHistory ==
    /\ lru = EmptyMap
    /\ max_ll_cache = EmptyMap
    /\ stack = <<>>
    /\ job = Idle
    /\ outcome = NoOutcome
    /\ hist = [maxc |-> 0, maxm |-> 0, clean |-> TRUE, cleared |-> FALSE]
    /\ phase = "history"
    /\ itree = <<>>
    /\ allow = FALSE
    /\ ct = <<>>
    /\ ct2 = <<>>
    /\ llres = <<>>
    /\ kernel = <<>>
    /\ NoSupport
    /\ NoForests
    /\ NoIsotype
    /\ NoSimulation
    /\ NoBranching
    /\ \E n \in 2..MaxInputNodes :
          \E par \in ParentVectors(n), sq \in [1..n -> SequenceSet],
             ab \in [1..n -> ShortAbundances] :
              /\ WellFormed(InputTree(n, par, sq, ab))
              /\ history = InputTree(n, par, sq, ab)
    /\ algebras = [cm |-> NotRun, ll |-> NotRun]

\* CollapsedForest.ll (lines 1044-1058): the CM summary of the history, from
\* weight_count with the CM-counter algebra and to_tuple
ForestLL ==
    /\ algebras.cm = NotRun
    /\ algebras' = [algebras EXCEPT
                       !.cm = to_tuple(Multiset(CMEdges(history, LevelOrder(history, <<1>>))))]
    /\ UNCHANGED history
    /\ UNCHANGED outside_history

\* weight_count, trim_optimal_weight or optimal_weight_annotate with the
\* log-likelihood algebra: the cells at which the kernel is called
WeightLL ==
    /\ algebras.ll = NotRun
    /\ algebras' = [algebras EXCEPT
                       !.ll = [raised |-> "none",
                               pairs |-> Multiset(LLEdges(history, LevelOrder(history, <<1>>)))]]
    /\ UNCHANGED history
    /\ UNCHANGED outside_history

NextHistory == ForestLL \/ WeightLL

SpecHistory == InitHistory /\ [][NextHistory]_vars

\* =============================================================== simulation
\* CollapsedTree._simulate_genotype(p, q).  Probabilities are counted in
\* quarters, Unit is 1.0, and the loop is followed for MaxSteps passes.
Unit == 4
Probabilities == {-1, 0, 1, 2, 3, 4, 5}
MaxSteps == 4

\* Variant: only p is tested.
InUnitInterval_POnly(p, q) == 0 <= p /\ p <= Unit

\* Line 227: 0 <= p <= 1 and 0 <= q <= 1
InUnitInterval(p, q) == (0 <= p /\ p <= Unit) /\ (0 <= q /\ q <= Unit)

\* Line 231: p >= 0.5
NotSubcritical(p) == 2 * p >= Unit

\* The outcomes of random.random() < x, for random.random() in [0, 1)
Below(x) == {b \in BOOLEAN : IF b THEN x > 0 ELSE x < Unit}

\* Variant: the loop goes on while cumsum_clones >= len_tree - 1.
Continues_AtEquality(cumsum_clones, len_tree) == cumsum_clones >= len_tree - 1

\* Line 243: while cumsum_clones > len_tree - 1
Continues(cumsum_clones, len_tree) == cumsum_clones > len_tree - 1

\* sum(random.random() < q for child in range(2))
Mutants(b1, b2) == (IF b1 THEN 1 ELSE 0) + (IF b2 THEN 1 ELSE 0)

InitSimulate ==
    /\ lru = EmptyMap
    /\ max_ll_cache = EmptyMap
    /\ stack = <<>>
    /\ job = Idle
    /\ outcome = NoOutcome
    /\ hist = [maxc |-> 0, maxm |-> 0, clean |-> TRUE, cleared |-> FALSE]
    /\ phase = "simulate"
    /\ itree = <<>>
    /\ allow = FALSE
    /\ ct = <<>>
    /\ ct2 = <<>>
    /\ llres = <<>>
    /\ kernel = <<>>
    /\ NoSupport
    /\ NoForests
    /\ NoIsotype
    /\ NoHistory
    /\ NoBranching
    /\ \E p, q \in Probabilities :
          sim = [pc |-> "called", p |-> p, q |-> q, raised |-> "none",
                 warned |-> FALSE, draws |-> 0,
                 cumsum_clones |-> 0, len_tree |-> 0, c |-> 0, m |-> 0]

\* Lines 227-239: the test of the arguments, the warning, the locals
CheckArguments ==
    /\ sim.pc = "called"
    /\ sim' = IF ~InUnitInterval(sim.p, sim.q)
              THEN [sim EXCEPT !.pc = "raised", !.raised = "ValueError"]
              ELSE [sim EXCEPT !.pc = "loop", !.warned = NotSubcritical(sim.p),
                               !.cumsum_clones = 0, !.len_tree = 0, !.c = 0, !.m = 0]
    /\ UNCHANGED outside_simulation

\* Lines 243-253: one pass of the loop
Iterate ==
    /\ sim.pc = "loop"
    /\ Continues(sim.cumsum_clones, sim.len_tree)
    /\ sim.len_tree < MaxSteps
    /\ \E branches \in Below(sim.p) :
          IF branches
          THEN \E b1, b2 \in Below(sim.q) :
                  LET mutants == Mutants(b1, b2)
                      clones == 2 - mutants
                  IN sim' = [sim EXCEPT !.m = @ + mutants,
                                        !.cumsum_clones = @ + clones,
                                        !.len_tree = @ + 1,
                                        !.draws = @ + 3]
          ELSE sim' = [sim EXCEPT !.c = @ + 1,
                                  !.len_tree = @ + 1,
                                  !.draws = @ + 1]
    /\ UNCHANGED outside_simulation

\* Lines 243 and 254-255: the loop ends, the assertion, the return
Return ==
    /\ sim.pc = "loop"
    /\ ~Continues(sim.cumsum_clones, sim.len_tree)
    /\ sim' = IF sim.cumsum_clones = sim.len_tree - 1
              THEN [sim EXCEPT !.pc = "returned"]
              ELSE [sim EXCEPT !.pc = "raised", !.raised = "AssertionError"]
    /\ UNCHANGED outside_simulation

NextSimulate == CheckArguments \/ Iterate \/ Return

SpecSimulate == InitSimulate /\ [][NextSimulate]_vars

\* ---------------------------------------------------- properties of forests
FilterCalled == call # NoCall
FilterReturned == FilterCalled /\ call.raised = "none"

\* The DAG of the forest filter_trees was called on, and of the one it returned
SelfDag == dags[forests[call.self].dag]
ReturnedDag == dags[forests[call.returned].dag]

\* The ranking score of a history of the forest filter_trees was called on
Score(h) == minfunckey(call.ranking_coeffs, WeightTuple(HistoryWeight(SelfDag, call.funcs, h)))

\* The histories of least ranking score
MinimalHistories ==
    {h \in call.histories : \A g \in call.histories : ~TupleLess(Score(g), Score(h))}

\* The scores left by trimming a copy of the DAG
ScoresAfterTrim ==
    {minfunckey(call.ranking_coeffs, key) :
        key \in weight_count(trim_optimal_weight(SelfDag, call.funcs, call.ranking_coeffs),
                             call.funcs)}

\* C11: when filter_trees returns, the histories of the returned forest are
\* exactly the histories of the original forest of minimal ranking score; when
\* histories of more than one score remain after trimming, RuntimeError is raised.
C11_ExactlyMinimal ==
    /\ FilterReturned => Histories(ReturnedDag) = MinimalHistories
    /\ (FilterCalled /\ call.raised # "ValueError" /\ Cardinality(ScoresAfterTrim) > 1)
          => call.raised = "RuntimeError"


\* The weight tuple of a history of the forest filter_trees was called on
HistoryTuple(h) == WeightTuple(HistoryWeight(SelfDag, call.funcs, h))

\* The lexicographic rank (-ll, isotype, mutability, alleles) of a history
LexRank(h) ==
    << -HistoryTuple(h)[1], HistoryTuple(h)[2], HistoryTuple(h)[3], HistoryTuple(h)[4] >>

\* C12: without ranking coefficients the returned forest holds exactly the
\* histories that are minimal in the lexicographic order of (-log-likelihood,
\* isotype parsimony, mutability parsimony, allele count).
C12_LexicographicWithAlleles ==
    (FilterReturned /\ ~call.ranking_coeffs.given) =>
        Histories(ReturnedDag) =
            {h \in call.histories : \A g \in call.histories : ~TupleLess(LexRank(g), LexRank(h))}


\* C13: a ranking_coeffs sequence that is given and whose length is not 3
\* makes filter_trees raise ValueError, and no forest is returned.
C13_WrongArityRejected ==
    (FilterCalled /\ call.ranking_coeffs.given /\ Len(call.ranking_coeffs.seq) # 3) =>
        /\ call.raised = "ValueError"
        /\ call.returned = 0
        /\ Len(forests) = 1


\* C14: with ranking coefficients (1, 0, 0) all histories of the returned
\* forest have one isotype parsimony and one log-likelihood, not only one score.
C14_SameIsotypeAndLikelihood ==
    (FilterReturned /\ call.ranking_coeffs.seq = <<1, 0, 0>>) =>
        \A h, g \in Histories(ReturnedDag) :
            /\ HistoryTuple(h)[2] = HistoryTuple(g)[2]
            /\ HistoryTuple(h)[1] = HistoryTuple(g)[1]

\* C14 witness: with coefficients (1, 0, 0) and isotypes in use, two histories
\* were returned while a history of the same score, with another isotype
\* parsimony, was left out.
C14_Witness ==
    /\ FilterReturned
    /\ call.ranking_coeffs.seq = <<1, 0, 0>>
    /\ call.funcs.iso
    /\ Cardinality(Histories(ReturnedDag)) > 1
    /\ \E h \in call.histories \ Histories(ReturnedDag) : \E g \in Histories(ReturnedDag) :
          /\ Score(h) = Score(g)
          /\ HistoryTuple(h)[2] # HistoryTuple(g)[2]


\* C15: after filter_trees has returned or raised, the forest it was called
\* on has the histories and the n_trees it had before, and a returned forest
\* is on another DAG object.
C15_OriginalUntouched ==
    FilterCalled =>
        /\ Histories(SelfDag) = call.histories
        /\ forests[call.self].n_trees = call.n_trees
        /\ call.returned # 0 => forests[call.returned].dag # forests[call.self].dag

\* C15 witness: a forest with fewer histories was returned and the call, made
\* with tree_stats, annotated the original DAG.
C15_Witness ==
    /\ FilterReturned
    /\ call.tree_stats
    /\ Histories(ReturnedDag) # call.histories
    /\ SelfDag.dp = "optimal_weight_annotate"


\* ---------------------------------------------------- properties of support
\* Every node has the parent and the list of children it had
SameStructure(t1, t2) == t1.nodes = t2.nodes /\ t1.up = t2.up /\ t1.kids = t2.kids

\* C16: after _get_split or support, the tree and the bootstrap tree have the
\* parents and the ordered lists of children they had before.
C16_StructureUnchanged ==
    phase \in {"split", "supported"} =>
        /\ SameStructure(ct.tree, sup.before)
        /\ SameStructure(ct2.tree, sup.boot_before)

\* ----------------------------------------------- properties of the isotype tool
MainRan == mainres # NoRun

\* The trees named by --trees, as unpickled
GivenTrees == [k \in DOMAIN mainres.trees.names |-> files.trees[mainres.trees.names[k]]]

\* The report of the trees ranked by decreasing log likelihood: rank, log
\* likelihood, node count before, isotype parsimony and node count after
\* the isotype additions
RankedReport ==
    LET given == GivenTrees
        ranked == sorted(Indices(Len(given)), [i \in DOMAIN given |-> 0 - given[i].ll])
    IN [k \in DOMAIN ranked |->
           LET t == given[ranked[k]]
               after == isotype_tree([nodes |-> t.nodes, observed |-> t.observed])
           IN << k, t.ll, t.nodes, isotype_parsimony(after), NumNodes(after) >>]

\* C18: main, given a log with a "params:" line and at least one tree file,
\* runs to completion and prints for each tree its log likelihood, original
\* node count, isotype parsimony and new node count, ranked by log likelihood.
C18_MainPrintsRanking ==
    (MainRan /\ files.params /\ mainres.trees.given)
        => (mainres.raised = "none" /\ mainres.printed = RankedReport)

\* ------------------------------------------------ properties of histories
BothRun == algebras.cm # NotRun /\ algebras.ll # NotRun

\* C23: on every history the assertion of to_tuple holds and the CM summary
\* the forest likelihood uses is the multiset of (c, m) at which the
\* log-likelihood algebra calls the kernel.
C23_SameCells ==
    (phase = "history" /\ BothRun) =>
        /\ algebras.cm.raised = "none"
        /\ algebras.cm.pairs = algebras.ll.pairs

\* ------------------------------------ properties of the DAG-only operations
\* A forest made without trees, or one simulate() has been called on
WithoutDag(f) == f.validation_stats = "None" \/ f.ctrees.given

\* C24: filter_trees, n_topologies, iter_topology_classes and add_isotypes,
\* called on a forest made without trees or on any forest simulate() has been
\* called on, raise NotImplementedError and leave every forest and every DAG
\* as it was.
C24_DagOnlyRefused ==
    [][(call = NoCall /\ call' # NoCall /\ WithoutDag(forests[call'.self]))
          => /\ call'.raised = "NotImplementedError"
             /\ forests' = forests
             /\ dags' = dags]_vars

C24_Witness ==
    /\ call # NoCall
    /\ call.raised = "NotImplementedError"
    /\ forests[call.self].validation_stats = "stats"
    /\ forests[call.self].ctrees.given
    /\ call.method = "iter_topology_classes"


\* ---------------------------------------- properties of derived forests
\* C30: the forest filter_trees returns has the fitted parameters, the
\* validation record and the isotyped status of the forest it was called on,
\* so filter_trees called on it (ignore_isotype left False) ranks by isotype
\* parsimony when that forest is isotyped.
C30_DerivedInherits ==
    FilterReturned =>
        LET source == forests[call.self]
            derived == forests[call.returned]
        IN /\ derived.parameters = source.parameters
           /\ derived.validation_stats = source.validation_stats
           /\ derived.is_isotyped = source.is_isotyped
           /\ source.is_isotyped =>
                 filter_trees(derived, ReturnedDag, call.ranking_coeffs, FALSE, FALSE).funcs.iso

\* ------------------------------------------------ properties of simulation
SimulationCalled == phase = "simulate" /\ sim.pc # "called"

\* C25: with p or q outside [0, 1] _simulate_genotype raises ValueError and
\* has drawn no random number; with both inside it raises no ValueError, and
\* with p >= 0.5 it has warned and goes on to the loop.
C25_ArgumentsChecked ==
    SimulationCalled =>
        IF sim.p \in 0..Unit /\ sim.q \in 0..Unit
        THEN /\ sim.raised # "ValueError"
             /\ sim.pc \in {"loop", "returned"}
             /\ NotSubcritical(sim.p) => sim.warned
        ELSE /\ sim.pc = "raised"
             /\ sim.raised = "ValueError"
             /\ sim.draws = 0
             /\ ~sim.warned

C25_Witness ==
    /\ SimulationCalled
    /\ sim.pc = "raised"
    /\ sim.p = 2
    /\ sim.q = 5

\* C29 as stated: at every pass of the loop cumsum_clones >= len_tree - 1;
\* the assertion never fails; the (c, m) returned is neither (0, 0) nor
\* (0, 1), has c = 0 only with m = 2, and is no zero-likelihood cell of the
\* kernel.
C29_ZeroClonesOnlyWithTwoMutants ==
    /\ (SimulationCalled /\ sim.pc \in {"loop", "returned"}) =>
            sim.cumsum_clones >= sim.len_tree - 1
    /\ SimulationCalled => sim.raised # "AssertionError"
    /\ (SimulationCalled /\ sim.pc = "returned") =>
            /\ sim.cumsum_clones = sim.len_tree - 1
            /\ <<sim.c, sim.m>> \notin {<<0, 0>>, <<0, 1>>}
            /\ sim.c = 0 => sim.m = 2
            /\ ~IsZeroEvent(sim.c, sim.m)

\* C29: at every pass of the loop cumsum_clones >= len_tree - 1; the
\* assertion never fails; the (c, m) returned is neither (0, 0) nor (0, 1),
\* has c = 0 only with m >= 2, and is no zero-likelihood cell of the kernel.
C29_SimulatedCellLegal ==
    /\ (SimulationCalled /\ sim.pc \in {"loop", "returned"}) =>
            sim.cumsum_clones >= sim.len_tree - 1
    /\ SimulationCalled => sim.raised # "AssertionError"
    /\ (SimulationCalled /\ sim.pc = "returned") =>
            /\ sim.cumsum_clones = sim.len_tree - 1
            /\ <<sim.c, sim.m>> \notin {<<0, 0>>, <<0, 1>>}
            /\ sim.c = 0 => sim.m >= 2
            /\ ~IsZeroEvent(sim.c, sim.m)

C29_Witness ==
    /\ SimulationCalled
    /\ sim.pc = "returned"
    /\ sim.c = 0
    /\ sim.m >= 3

\* ------------------------------------------- properties of local branching
\* C26: after local_branching the downward messages of every node n, leaf or
\* internal and whatever its abundance, contain for n itself the self term
\* abundance(n) * tau * (1 - exp(-tau0 / tau)).
C26_SelfTermOnEveryNode ==
    lb # <<>> =>
        \A n \in ct.tree.nodes :
            /\ n \in DOMAIN lb.LB_down[n]
            /\ lb.LB_down[n][n].n = Clones(ct.tree.abund[n], lb.tau0).n
            /\ lb.LB_down[n][n].e = Clones(ct.tree.abund[n], lb.tau0).e

\* ------------------------------------------- more properties of the kernel
\* C27: the body at the recurrence is on a legal cell; the cells it
\* reads are never (0, 0) or (0, 1); unless it is on a base case it reads at
\* least one cell, and once it has read them it finds a term and does not
\* raise; so a zero-likelihood error comes only from a request that names
\* (0, 0) or (0, 1).
C27_NoTermsUnreachable ==
    /\ Running("terms") =>
          LET deps == Deps(Top.c, Top.m)
          IN /\ (Top.c >= 1 \/ Top.m >= 2)
             /\ \A i \in DOMAIN deps : deps[i] \notin ZeroCells
             /\ deps = <<>> => <<Top.c, Top.m>> \in {<<1, 0>>, <<0, 2>>}
    /\ (Running("terms") /\ Top.todo = <<>>) =>
          ~ZeroLikelihood(Top.c, Top.m, Top.p, Top.q, Top.reads)
    /\ (outcome.kind = "error" /\ outcome.val = "Zero likelihood event") =>
          \E i \in DOMAIN outcome.job.cm_counts : outcome.job.cm_counts[i][1] \in ZeroCells

\* C27 witness: the body of (MaxC, 0), which has no asymmetric term, has read
\* the cells of its splits.
C27_Witness ==
    /\ Running("terms")
    /\ Top.todo = <<>>
    /\ <<Top.c, Top.m>> = <<MaxC, 0>>
    /\ Len(Top.reads) >= 2

\* C28: in every state _max_ll_cache holds at most one (p, q), and every
\* entry of the lru_cache is an entry of that (p, q).
C28_OneParameterPair ==
    /\ Cardinality(DOMAIN max_ll_cache) <= 1
    /\ \A k \in DOMAIN lru : <<k[3], k[4]>> \in DOMAIN max_ll_cache

\* C28 witnesses: a nested fill under a (p, q) that replaced a non-empty
\* cache, with cells already memoized again.
C28_Witness ==
    /\ Len(stack) >= 2
    /\ hist.cleared
    /\ lru # EmptyMap
    /\ Bottom.pc = "fill"

=========================================================================
